---- MODULE Spec2Model ----
(***************************************************************************)
(* Model of the stock analyzer's analytics core and data download, as     *)
(* documented with code in docs/LLD.md (services/weinstein_screening.py,   *)
(* services/data_fetcher.py, routes/analysis.py, routes/ohlcv.py and the   *)
(* "Key Algorithms" section).                                              *)
(*                                                                         *)
(* Numbers.  A pandas float is modelled exactly, as a rational:            *)
(*   <<>>       NaN (the "undefined" marker)                               *)
(*   <<n, d>>   n/d with d > 0                                             *)
(*   <<1, 0>>   +inf (the result of x/0 for x > 0)                         *)
(* Binary floating-point rounding is not modelled.  Scores are sums of     *)
(* the literals 33.33 / 33.34, kept as rationals over 100.                 *)
(***************************************************************************)
EXTENDS Integers, Sequences, FiniteSets, TLC

VARIABLES
    daily,        \* resampler input: daily bars of one instrument
    weekly,       \* weekly bars (output of resample_to_weekly)
    indexWeekly,  \* weekly bars of the benchmark (index_df)
    frame,        \* weekly bars with ma30 / rs / stage (compute_indicators)
    result,       \* conditions and score of apply_filters
    prices,       \* daily closes handed to calculate_ema / calculate_rsi
    ema,          \* period -> EMA series
    rsi,          \* RSI series
    latest,       \* latest daily indicator values of one stock
    confidence,   \* components and total of the analysis score
    stocks,       \* heatmap input: stocks with sector and prices, as read
    responses,    \* the sector-heatmap responses computed so far
    csv,          \* Symbol column of services/symbols.csv
    kite,         \* symbol -> what fetch_historical_data returns or raises
    kite_calls,   \* the symbols fetch_historical_data was called for, in order
    db,           \* rows of the ohlcv_data table
    symbols,      \* download_5year_data: the de-duplicated symbol list
    idx,          \* download_5year_data: symbols handled so far
    success_count, \* download_5year_data: symbols committed
    emitted,      \* refresh_progress events emitted, in order
    target,       \* the symbol screened after the download
    filteredData, \* Analysis: the rows of the table, in display order
    loading,      \* Analysis: a loadAnalysisData call is running
    loads,        \* Analysis: loadAnalysisData calls started so far
    selectedStock, \* Analysis: the row last clicked, or Null
    sortConfig,   \* Analysis: {key, direction} of the header sort
    load_ok,      \* Analysis: the last loadAnalysisData to end got its response
    chart_symbol, \* CandlestickChart: symbol prop of the mounted chart, or NoSymbol
    chart_inst,   \* CandlestickChart: number of the mounted instance
    chartData,    \* CandlestickChart: the chart data displayed, or Null
    chart_loading, \* CandlestickChart: loading flag
    chart_error,  \* CandlestickChart: error message, or Null
    chart_inflight, \* chart-data requests awaiting their response
    chart_log,    \* symbols of the chart-data requests issued, in order
    duration,     \* SectorHeatmap: the duration bucket selected
    customMode,   \* SectorHeatmap: the custom date range is applied
    startDate,    \* SectorHeatmap: value of the first date input
    endDate,      \* SectorHeatmap: value of the second date input
    heatmap_loading, \* SectorHeatmap: loading flag
    heatmap_error, \* SectorHeatmap: error message, or Null
    heatmapData,  \* SectorHeatmap: the response displayed
    expandedSector, \* SectorHeatmap: name of the expanded sector, or NoSector
    isRefreshing, \* SectorHeatmap: handleRefresh is under way
    interval,     \* SectorHeatmap: filter state seen by the 5-minute timer
    refresh_inflight, \* filter states seen by the handleRefresh calls awaiting the POST
    refresh_timeouts, \* filter states seen by the pending 5-second timeouts
    heatmap_inflight, \* parameters of the sector-heatmap requests awaiting their response, oldest first
    applied,      \* SectorHeatmap: Apply was the last thing the user did to the filter
    snapshot,     \* worker pool: the bars read by the pipelines
    tasks,        \* worker pool: task -> its position, its frame and its output
    alone,        \* worker pool: task -> frame and output of its pipeline run alone
    showModal,    \* DataDownload: the modal is open
    downloading,  \* DataDownload: a download is shown as running
    dl_progress,  \* DataDownload: progress {current, total, percentage}
    dl_message,   \* DataDownload: message
    recordsInserted, \* DataDownload: records counter
    currentSymbol, \* DataDownload: symbol being processed
    post_inflight, \* DataDownload: the POST of handleStartDownload: none, sent, ok or error
    connectionStatus, \* KiteConnectionManager: {connected, checking, error}
    kite_showModal, \* KiteConnectionManager: the wizard is open
    currentStep,  \* KiteConnectionManager: step of the wizard, 1..3
    check_inflight, \* KiteConnectionManager: status checks of the timer awaiting their response
    verify_inflight, \* KiteConnectionManager: for each Verify click awaiting its check, connected as its render saw it
    login_inflight, \* KiteConnectionManager: for each Login click awaiting its response, connectionStatus as its render saw it
    ip_status,    \* InitializationProgress: status
    ip_isRefreshing, \* InitializationProgress: isRefreshing
    ip_view,      \* InitializationProgress: progress, message, current, total, currentSymbol, recordsAdded, recordsCleaned
    ip_posts,     \* InitializationProgress: routes of the POSTs awaiting their response
    sl_loading,   \* Shortlist: loading
    sl_state,     \* Shortlist: shortlistedStocks, trades, portfolio and pnlAnalysis
    sl_calls,     \* Shortlist: for each loadAllData call so far, its requests awaiting their response
    sl_mutations, \* Shortlist: trade submissions and deletions awaiting their response
    socket_next,  \* DataDownload: index in emitted of the next event the socket gets
    socket_handled, \* DataDownload: events handled by the socket of this modal
    pc            \* position of the request in the pipeline

wvars == <<daily, weekly, indexWeekly, frame, result>>
ivars == <<prices, ema, rsi>>
cvars == <<latest, confidence>>
svars == <<stocks, responses>>
dvars == <<csv, kite, kite_calls, db, symbols, idx, success_count, emitted, target>>

pvars == <<snapshot, tasks, alone>>

\* The backend requests and jobs.
bvars == <<wvars, ivars, cvars, svars, dvars, pvars>>

avars == <<filteredData, loading, loads, selectedStock, sortConfig, load_ok, chart_symbol, chart_inst,
           chartData, chart_loading, chart_error, chart_inflight, chart_log>>

hvars == <<duration, customMode, startDate, endDate, heatmap_loading, heatmap_error,
           heatmapData, expandedSector, isRefreshing, interval, refresh_inflight,
           refresh_timeouts, heatmap_inflight, applied>>

mvars == <<showModal, downloading, dl_progress, dl_message, recordsInserted,
           currentSymbol, post_inflight, socket_next, socket_handled>>

\* The React components.
kvars == <<connectionStatus, kite_showModal, currentStep, check_inflight,
           verify_inflight, login_inflight>>

nvars == <<ip_status, ip_isRefreshing, ip_view, ip_posts>>

lvars == <<sl_loading, sl_state, sl_calls, sl_mutations>>

xvars == <<kvars, nvars, lvars>>

fvars == <<avars, hvars, mvars, xvars>>

vars == <<bvars, fvars, pc>>

----------------------------------------------------------------------------
(* Float arithmetic *)

NaN == <<>>
Inf == <<1, 0>>
F(n) == <<n, 1>>

IsNaN(x) == x = NaN
IsInf(x) == x # NaN /\ x[2] = 0
IsNum(x) == x # NaN /\ x[2] > 0

\* Comparisons: any comparison with NaN is False.
Lt(a, b) == ~IsNaN(a) /\ ~IsNaN(b) /\ a[1] * b[2] < b[1] * a[2]
Gt(a, b) == Lt(b, a)
EqF(a, b) == ~IsNaN(a) /\ ~IsNaN(b) /\ a[1] * b[2] = b[1] * a[2]
Ge(a, b) == Gt(a, b) \/ EqF(a, b)
Le(a, b) == Lt(a, b) \/ EqF(a, b)

AddF(a, b) ==
    IF IsNaN(a) \/ IsNaN(b) THEN NaN
    ELSE IF IsInf(a) \/ IsInf(b) THEN Inf
    ELSE IF a[2] = b[2] THEN <<a[1] + b[1], a[2]>>
    ELSE <<a[1] * b[2] + b[1] * a[2], a[2] * b[2]>>

NegF(a) == IF IsNaN(a) THEN NaN ELSE <<0 - a[1], a[2]>>

SubF(a, b) == AddF(a, NegF(b))

MulF(a, b) ==
    IF IsNaN(a) \/ IsNaN(b) THEN NaN
    ELSE <<a[1] * b[1], a[2] * b[2]>>

\* a / b for a >= 0: x/0 is +inf for x > 0 and NaN for x = 0; x/inf is 0.
DivF(a, b) ==
    IF IsNaN(a) \/ IsNaN(b) THEN NaN
    ELSE IF IsInf(b) THEN (IF IsInf(a) THEN NaN ELSE F(0))
    ELSE IF b[1] = 0 THEN (IF a[1] = 0 THEN NaN ELSE Inf)
    ELSE IF b[1] > 0 THEN <<a[1] * b[2], a[2] * b[1]>>
    ELSE <<0 - (a[1] * b[2]), a[2] * (0 - b[1])>>

----------------------------------------------------------------------------
(* services/weinstein_screening.py *)

\* The 'W-FRI' bin of a day: weeks run Saturday..Friday and are labelled by
\* their Friday.  Day 0 is a Saturday.
WeekLabel(d) == d - (d % 7) + 6

RECURSIVE SumVolume(_, _)
SumVolume(df, idxs) ==
    IF idxs = {} THEN 0
    ELSE LET i == CHOOSE i \in idxs : TRUE
         IN  df[i].volume + SumVolume(df, idxs \ {i})

MinIdx(idxs) == CHOOSE i \in idxs : \A j \in idxs : i <= j
MaxIdx(idxs) == CHOOSE i \in idxs : \A j \in idxs : i >= j

\* A weekly aggregation that takes the week's first close for 'close'.
AggWeek_FirstClose(df, w) ==
    LET idxs == {i \in 1..Len(df) : WeekLabel(df[i].ts) = w}
    IN  IF idxs = {}
        THEN [ts |-> w, open |-> NaN, high |-> NaN, low |-> NaN, close |-> NaN, volume |-> 0]
        ELSE [ts |-> w,
              open |-> df[MinIdx(idxs)].open,
              high |-> df[CHOOSE i \in idxs : \A j \in idxs : ~Lt(df[i].high, df[j].high)].high,
              low |-> df[CHOOSE i \in idxs : \A j \in idxs : ~Gt(df[i].low, df[j].low)].low,
              close |-> df[MinIdx(idxs)].close,
              volume |-> SumVolume(df, idxs)]

\* .agg({'open': 'first', 'high': 'max', 'low': 'min', 'close': 'last',
\* 'volume': 'sum'}) on the bin labelled w; a bin without rows gets NaN
\* prices and a volume of 0.
AggWeek(df, w) ==
    LET idxs == {i \in 1..Len(df) : WeekLabel(df[i].ts) = w}
    IN  IF idxs = {}
        THEN [ts |-> w, open |-> NaN, high |-> NaN, low |-> NaN, close |-> NaN, volume |-> 0]
        ELSE [ts |-> w,
              open |-> df[MinIdx(idxs)].open,
              high |-> df[CHOOSE i \in idxs : \A j \in idxs : ~Lt(df[i].high, df[j].high)].high,
              low |-> df[CHOOSE i \in idxs : \A j \in idxs : ~Gt(df[i].low, df[j].low)].low,
              close |-> df[MaxIdx(idxs)].close,
              volume |-> SumVolume(df, idxs)]

\* A resampling that drops the bins without rows.
resample_to_weekly_DropEmpty(df) ==
    IF Len(df) = 0 THEN <<>>
    ELSE LET w0 == WeekLabel(df[1].ts)
             w1 == WeekLabel(df[Len(df)].ts)
             all == [k \in 1..((w1 - w0) \div 7 + 1) |-> AggWeek(df, w0 + 7 * (k - 1))]
             HasRows(b) == \E i \in 1..Len(df) : WeekLabel(df[i].ts) = b.ts
         IN  SelectSeq(all, HasRows)

\* df.resample('W-FRI', on='timestamp'): one bin per week from the week of the
\* first row to the week of the last row, in order.  df is ordered by timestamp.
resample_to_weekly(df) ==
    IF Len(df) = 0 THEN <<>>
    ELSE LET w0 == WeekLabel(df[1].ts)
             w1 == WeekLabel(df[Len(df)].ts)
         IN  [k \in 1..((w1 - w0) \div 7 + 1) |-> AggWeek(df, w0 + 7 * (k - 1))]

MA_WINDOW == 30
RS_WINDOW == 52

RECURSIVE SumClose(_, _, _)
\* Sum of df.close over the indices lo..hi (NaN as soon as one close is NaN).
SumClose(df, lo, hi) ==
    IF lo > hi THEN F(0) ELSE AddF(df[hi].close, SumClose(df, lo, hi - 1))

\* df['close'].rolling(window=30).mean() at index t (1-based).
RollingMeanClose(df, t) ==
    IF t < MA_WINDOW THEN NaN
    ELSE DivF(SumClose(df, t - MA_WINDOW + 1, t), F(MA_WINDOW))

\* Series.pct_change(): close[t]/close[t-1] - 1, NaN at the first index.
PctChange(df, t) ==
    IF t < 2 THEN NaN ELSE SubF(DivF(df[t].close, df[t - 1].close), F(1))

\* index_df['close'].pct_change() aligned on the timestamp of df[t].
IndexPctChange(df, index_df, t) ==
    LET js == {j \in 1..Len(index_df) : index_df[j].ts = df[t].ts}
    IN  IF js = {} THEN NaN ELSE PctChange(index_df, CHOOSE j \in js : TRUE)

RsRatio(df, index_df, t) ==
    DivF(AddF(F(1), PctChange(df, t)), AddF(F(1), IndexPctChange(df, index_df, t)))

RECURSIVE Gcd(_, _)
Gcd(a, b) == IF b = 0 THEN a ELSE Gcd(b, a % b)

\* The same number in lowest terms.
Norm(x) ==
    IF ~IsNum(x) THEN x
    ELSE LET n == IF x[1] < 0 THEN 0 - x[1] ELSE x[1]
             g == Gcd(n, x[2])
         IN  <<x[1] \div g, x[2] \div g>>

\* The rolling window functions take an infinite value as a missing one.
RollingValue(x) == IF IsInf(x) THEN NaN ELSE x

RECURSIVE SumRatio(_, _, _, _)
\* Sum of the ratios of the indices lo..hi (NaN as soon as one is missing),
\* added pairwise.
SumRatio(df, index_df, lo, hi) ==
    IF lo > hi THEN F(0)
    ELSE IF lo = hi THEN Norm(RollingValue(RsRatio(df, index_df, lo)))
    ELSE LET mid == (lo + hi) \div 2
         IN  Norm(AddF(SumRatio(df, index_df, lo, mid),
                       SumRatio(df, index_df, mid + 1, hi)))

RECURSIVE SumDefinedRatio(_, _, _, _)
\* Sum of the ratios of lo..hi that are numbers.
SumDefinedRatio(df, index_df, lo, hi) ==
    IF lo > hi THEN F(0)
    ELSE IF lo = hi
    THEN LET r == RsRatio(df, index_df, lo) IN IF IsNum(r) THEN Norm(r) ELSE F(0)
    ELSE LET mid == (lo + hi) \div 2
         IN  Norm(AddF(SumDefinedRatio(df, index_df, lo, mid),
                       SumDefinedRatio(df, index_df, mid + 1, hi)))

\* A rolling mean over the values present in the window (min_periods=1).
RollingMeanRs_SkipUndefined(df, index_df, t) ==
    LET lo == IF t < RS_WINDOW THEN 1 ELSE t - RS_WINDOW + 1
        cnt == Cardinality({i \in lo..t : IsNum(RsRatio(df, index_df, i))})
    IN  IF cnt = 0 THEN NaN
        ELSE DivF(SumDefinedRatio(df, index_df, lo, t), F(cnt))

\* df['rs'].rolling(window=52).mean() at index t: undefined unless the window
\* holds 52 values.
RollingMeanRs(df, index_df, t) ==
    IF t < RS_WINDOW THEN NaN
    ELSE DivF(SumRatio(df, index_df, t - RS_WINDOW + 1, t), F(RS_WINDOW))

\* A stage rule that forgets the trend of ma30.
StageOf_NoTrend(close, ma30, ma30_prev) ==
    IF Gt(close, ma30) THEN "Stage 2"
    ELSE IF Lt(close, ma30) THEN "Stage 4"
    ELSE "Unknown"

\* The two df.loc[...] assignments over the default 'Unknown'.
StageOf(close, ma30, ma30_prev) ==
    LET s0 == "Unknown"
        s1 == IF Gt(close, ma30) /\ Gt(ma30, ma30_prev) THEN "Stage 2" ELSE s0
        s2 == IF Lt(close, ma30) /\ Lt(ma30, ma30_prev) THEN "Stage 4" ELSE s1
    IN  s2

\* df['ma30'].shift(1) at index t.
Ma30Prev(df, t) == IF t < 2 THEN NaN ELSE RollingMeanClose(df, t - 1)

\* Indicators whose stage is left at 'Unknown' where the benchmark has no
\* return.
compute_indicators_NeedsBenchmark(df, index_df) ==
    [t \in 1..Len(df) |->
        [ts |-> df[t].ts, open |-> df[t].open, high |-> df[t].high,
         low |-> df[t].low, close |-> df[t].close, volume |-> df[t].volume,
         ma30 |-> RollingMeanClose(df, t),
         rs |-> RollingMeanRs(df, index_df, t),
         stage |-> IF IsNaN(IndexPctChange(df, index_df, t)) THEN "Unknown"
                   ELSE StageOf(df[t].close, RollingMeanClose(df, t), Ma30Prev(df, t))]]

compute_indicators(df, index_df) ==
    [t \in 1..Len(df) |->
        [ts |-> df[t].ts, open |-> df[t].open, high |-> df[t].high,
         low |-> df[t].low, close |-> df[t].close, volume |-> df[t].volume,
         ma30 |-> RollingMeanClose(df, t),
         rs |-> RollingMeanRs(df, index_df, t),
         stage |-> StageOf(df[t].close, RollingMeanClose(df, t), Ma30Prev(df, t))]]

W_STAGE == <<3333, 100>>
W_RESISTANCE == <<3333, 100>>
W_EXTENSION == <<3334, 100>>

\* apply_filters with condition 3 written as "not (extension >= 20)", which an
\* undefined ma30 passes.
apply_filters_NaNPasses(df) ==
    LET latest_week == df[Len(df)]
        condition_1 == latest_week.stage = "Stage 2"
        resistance_percent ==
            MulF(DivF(SubF(latest_week.high, latest_week.close), latest_week.close), F(100))
        condition_2 == Lt(resistance_percent, F(5))
        extension_percent ==
            MulF(DivF(SubF(latest_week.close, latest_week.ma30), latest_week.ma30), F(100))
        condition_3 == ~(Gt(extension_percent, F(20)) \/ EqF(extension_percent, F(20)))
        sc0 == F(0)
        sc1 == IF condition_1 THEN AddF(sc0, W_STAGE) ELSE sc0
        sc2 == IF condition_2 THEN AddF(sc1, W_RESISTANCE) ELSE sc1
        sc3 == IF condition_3 THEN AddF(sc2, W_EXTENSION) ELSE sc2
    IN  [condition_stage2 |-> condition_1,
         condition_low_resistance |-> condition_2,
         condition_not_overextended |-> condition_3,
         score |-> sc3]

\* apply_filters(df): the three conditions on df.iloc[-1] and the score.
apply_filters(df) ==
    LET latest_week == df[Len(df)]
        condition_1 == latest_week.stage = "Stage 2"
        resistance_percent ==
            MulF(DivF(SubF(latest_week.high, latest_week.close), latest_week.close), F(100))
        condition_2 == Lt(resistance_percent, F(5))
        extension_percent ==
            MulF(DivF(SubF(latest_week.close, latest_week.ma30), latest_week.ma30), F(100))
        condition_3 == Lt(extension_percent, F(20))
        sc0 == F(0)
        sc1 == IF condition_1 THEN AddF(sc0, W_STAGE) ELSE sc0
        sc2 == IF condition_2 THEN AddF(sc1, W_RESISTANCE) ELSE sc1
        sc3 == IF condition_3 THEN AddF(sc2, W_EXTENSION) ELSE sc2
    IN  [condition_stage2 |-> condition_1,
         condition_low_resistance |-> condition_2,
         condition_not_overextended |-> condition_3,
         score |-> sc3]

----------------------------------------------------------------------------
(* A weekly screening request: weekly bars -> compute_indicators ->        *)
(* apply_filters.                                                          *)

MaxWeeks == 31

BaseCloses == {100}
HeadCloses == {50, 100, 150}
SecondCloses == {90, 100}
LastCloses == {90, 100, 110, 120, 130}
LastHighs == {105, 112, 130, 140}

Bar(ts, o, h, l, c, v) ==
    [ts |-> ts, open |-> F(o), high |-> F(h), low |-> F(l), close |-> F(c), volume |-> v]

FlatBar(ts, c) == Bar(ts, c, c, c, c, 1)

\* Friday-labelled week number k (day 0 is a Saturday, so Fridays are 7k+6).
WeekTs(k) == 7 * (k - 1) + 6

\* n weekly bars: the first two and the last close are free, the others close
\* at cb; the last bar closes at cl under a high of hl.
WeeklyShape(n, cb, c1, c2, cl, hl) ==
    [t \in 1..n |->
        IF t = n THEN Bar(WeekTs(t), cl, hl, cl, cl, 1)
        ELSE IF t = 1 THEN FlatBar(WeekTs(t), c1)
        ELSE IF t = 2 THEN FlatBar(WeekTs(t), c2)
        ELSE FlatBar(WeekTs(t), cb)]

\* The benchmark: absent (no common timestamp) or a flat series on the same weeks.
IndexShapes(n, cb) == {<<>>, [t \in 1..n |-> FlatBar(WeekTs(t), cb)]}

\* The variables of the requests that are not running.
IdleWeinstein ==
    /\ daily = <<>>
    /\ weekly = <<>>
    /\ indexWeekly = <<>>
    /\ frame = <<>>
    /\ result = [condition_stage2 |-> FALSE, condition_low_resistance |-> FALSE,
                 condition_not_overextended |-> FALSE, score |-> NaN]

IdleIndicators ==
    /\ prices = <<>>
    /\ ema = <<>>
    /\ rsi = <<>>

IdleConfidence ==
    /\ latest = <<>>
    /\ confidence = <<>>

IdleHeatmap ==
    /\ stocks = <<>>
    /\ responses = <<>>

IdleDownload ==
    /\ csv = <<>>
    /\ kite = <<>>
    /\ kite_calls = <<>>
    /\ db = {}
    /\ symbols = <<>>
    /\ idx = 0
    /\ success_count = 0
    /\ emitted = <<>>
    /\ target = ""

\* JavaScript values: null, undefined (a missing key), a number; a symbol
\* prop that is not set is the falsy NoSymbol.
Null == [js |-> "null"]
Undefined == [js |-> "undefined"]
Num(n) == [js |-> "number", v |-> n]
NoSymbol == ""

NoSort == [key |-> "", direction |-> "asc"]

IdleAnalysis ==
    /\ filteredData = <<>>
    /\ loading = FALSE
    /\ loads = 0
    /\ selectedStock = Null
    /\ sortConfig = NoSort
    /\ load_ok = FALSE
    /\ chart_symbol = NoSymbol
    /\ chart_inst = 0
    /\ chartData = Null
    /\ chart_loading = FALSE
    /\ chart_error = Null
    /\ chart_inflight = {}
    /\ chart_log = <<>>

NoSector == ""
NoData == [sectors |-> <<>>]
NoFilter == [duration |-> "", customMode |-> FALSE, startDate |-> "", endDate |-> ""]

IdleHeatmapView ==
    /\ duration = ""
    /\ customMode = FALSE
    /\ startDate = ""
    /\ endDate = ""
    /\ heatmap_loading = FALSE
    /\ heatmap_error = Null
    /\ heatmapData = NoData
    /\ applied = FALSE
    /\ expandedSector = NoSector
    /\ isRefreshing = FALSE
    /\ interval = NoFilter
    /\ refresh_inflight = {}
    /\ refresh_timeouts = {}
    /\ heatmap_inflight = <<>>

NoProgress == [current |-> 0, total |-> 0, percentage |-> 0]
NoMessage == [text |-> ""]

IdleModal ==
    /\ showModal = FALSE
    /\ downloading = FALSE
    /\ dl_progress = NoProgress
    /\ dl_message = NoMessage
    /\ recordsInserted = 0
    /\ currentSymbol = ""
    /\ post_inflight = "none"
    /\ socket_next = 0
    /\ socket_handled = 0

NoStatus == [connected |-> FALSE, checking |-> TRUE, error |-> Null]

IdleKite ==
    /\ connectionStatus = NoStatus
    /\ kite_showModal = FALSE
    /\ currentStep = 1
    /\ check_inflight = 0
    /\ verify_inflight = <<>>
    /\ login_inflight = <<>>

NoView ==
    [progress |-> 0, message |-> "", current |-> 0, total |-> 0, currentSymbol |-> "",
     recordsAdded |-> 0, recordsCleaned |-> 0]

IdleInitProgress ==
    /\ ip_status = "idle"
    /\ ip_isRefreshing = FALSE
    /\ ip_view = NoView
    /\ ip_posts = <<>>

\* The four pieces of state loadAllData fills, named by their fetcher.
Fetchers == {"fetchShortlist", "fetchTrades", "fetchPortfolio", "fetchPnLAnalysis"}

\* useState([]) for the three lists, useState(null) for pnlAnalysis.
NoShortlistState ==
    [f \in Fetchers |-> IF f = "fetchPnLAnalysis" THEN Null ELSE [rows |-> <<>>]]

IdleShortlist ==
    /\ sl_loading = FALSE
    /\ sl_state = NoShortlistState
    /\ sl_calls = <<>>
    /\ sl_mutations = 0

IdleExtra == IdleKite /\ IdleInitProgress /\ IdleShortlist

IdleFrontend == IdleAnalysis /\ IdleHeatmapView /\ IdleModal /\ IdleExtra

IdlePool ==
    /\ snapshot = <<>>
    /\ tasks = <<>>
    /\ alone = <<>>

IdleBackend ==
    /\ IdleWeinstein
    /\ IdleIndicators
    /\ IdleConfidence
    /\ IdleHeatmap
    /\ IdleDownload
    /\ IdlePool

NoResult ==
    [condition_stage2 |-> FALSE, condition_low_resistance |-> FALSE,
     condition_not_overextended |-> FALSE, score |-> NaN]

InitWeinstein ==
    /\ daily = <<>>
    /\ \E n \in 1..MaxWeeks, cb \in BaseCloses, c1 \in HeadCloses,
          c2 \in SecondCloses, cl \in LastCloses, hl \in LastHighs :
          /\ hl >= cl
          /\ weekly = WeeklyShape(n, cb, c1, c2, cl, hl)
          /\ indexWeekly \in IndexShapes(n, cb)
    /\ frame = <<>>
    /\ result = NoResult
    /\ IdleIndicators
    /\ IdleConfidence
    /\ IdleHeatmap
    /\ IdleDownload
    /\ IdleFrontend
    /\ IdlePool
    /\ pc = "resampled"

ComputeIndicators ==
    /\ pc = "resampled"
    /\ frame' = compute_indicators(weekly, indexWeekly)
    /\ pc' = "indicators"
    /\ UNCHANGED <<daily, weekly, indexWeekly, result>>
    /\ UNCHANGED <<ivars, cvars, svars, dvars, fvars, pvars>>

ApplyFilters ==
    /\ pc = "indicators"
    /\ Len(frame) > 0
    /\ result' = apply_filters(frame)
    /\ pc' = "scored"
    /\ UNCHANGED <<daily, weekly, indexWeekly, frame>>
    /\ UNCHANGED <<ivars, cvars, svars, dvars, fvars, pvars>>

NextWeinstein == ComputeIndicators \/ ApplyFilters

SpecWeinstein == InitWeinstein /\ [][NextWeinstein]_vars

----------------------------------------------------------------------------
(* Claims about the Weinstein stage and score (SpecWeinstein) *)

LatestWeek == frame[Len(frame)]

\* ma30 one index earlier, read from the computed frame.
FramePrevMa30(t) == IF t < 2 THEN NaN ELSE frame[t - 1].ma30

\* Nearest integer of a non-negative rational.
RoundF(x) == (2 * x[1] + x[2]) \div (2 * x[2])

WeightSum(a, b, c) ==
    AddF(AddF(IF a THEN W_STAGE ELSE F(0), IF b THEN W_RESISTANCE ELSE F(0)),
         IF c THEN W_EXTENSION ELSE F(0))

\* C1: the reported score is the sum of the weights of the true conditions
\* rounded to the nearest integer, hence one of 0, 33, 66, 67, 100, and it is
\* 100 when all three conditions are true.
C1_ScoreIsRoundedWeightSum ==
    pc = "scored" =>
        LET a == result.condition_stage2
            b == result.condition_low_resistance
            c == result.condition_not_overextended
        IN  /\ EqF(result.score, F(RoundF(WeightSum(a, b, c))))
            /\ \E k \in {0, 33, 66, 67, 100} : EqF(result.score, F(k))
            /\ (a /\ b /\ c) => EqF(result.score, F(100))

\* C2: at every weekly index the label is Stage 2 exactly when close > ma30
\* and ma30 > ma30_prev, Stage 4 exactly when close < ma30 and
\* ma30 < ma30_prev, and Unknown otherwise (so whenever ma30 or ma30_prev is
\* undefined); no other label occurs, and two indices with the same
\* (close, ma30, ma30_prev) carry the same label.
C2_StageLabel ==
    pc \in {"indicators", "scored"} =>
        /\ \A t \in 1..Len(frame) :
            LET c == frame[t].close
                m == frame[t].ma30
                mp == FramePrevMa30(t)
                up == Gt(c, m) /\ Gt(m, mp)
                down == Lt(c, m) /\ Lt(m, mp)
            IN  /\ frame[t].stage \in {"Stage 2", "Stage 4", "Unknown"}
                /\ (frame[t].stage = "Stage 2") <=> up
                /\ (frame[t].stage = "Stage 4") <=> down
                /\ (frame[t].stage = "Unknown") <=> (~up /\ ~down)
                /\ (IsNaN(m) \/ IsNaN(mp)) => frame[t].stage = "Unknown"
        /\ \A t, u \in 1..Len(frame) :
            (/\ frame[t].close = frame[u].close
             /\ frame[t].ma30 = frame[u].ma30
             /\ FramePrevMa30(t) = FramePrevMa30(u))
            => frame[t].stage = frame[u].stage

\* A frame whose latest week is Stage 2 and whose first week with a defined
\* ma30 (no ma30_prev) is Unknown although its close is above ma30.
C2_Witness ==
    /\ pc = "indicators"
    /\ Len(frame) > MA_WINDOW
    /\ LatestWeek.stage = "Stage 2"
    /\ frame[MA_WINDOW].stage = "Unknown"
    /\ IsNum(frame[MA_WINDOW].ma30)
    /\ IsNaN(FramePrevMa30(MA_WINDOW))

C2_WitnessStage4 ==
    /\ pc = "indicators"
    /\ Len(frame) > 0
    /\ LatestWeek.stage = "Stage 4"

\* C4 as stated: with ma30 of the latest week undefined, all three conditions
\* are false and the score is 0.
C4_AllFalseWhenMa30Undefined ==
    (pc = "scored" /\ IsNaN(LatestWeek.ma30)) =>
        /\ ~result.condition_stage2
        /\ ~result.condition_low_resistance
        /\ ~result.condition_not_overextended
        /\ EqF(result.score, F(0))

\* (high - close)/close < 5/100 on the raw bar, for close > 0.
WithinFivePercent(w) ==
    (w.high[1] * w.close[2] - w.close[1] * w.high[2]) * 100 < 5 * w.close[1] * w.high[2]

\* C4 amended: with ma30 of the latest week undefined, stage_condition and
\* not_overextended_condition are false, low_resistance_condition is still
\* evaluated from high and close, and the score is the weight of B (33.33)
\* when it is true and 0 otherwise.
C4_Amended ==
    (pc = "scored" /\ IsNaN(LatestWeek.ma30)) =>
        /\ ~result.condition_stage2
        /\ ~result.condition_not_overextended
        /\ result.condition_low_resistance <=> WithinFivePercent(LatestWeek)
        /\ EqF(result.score,
               IF result.condition_low_resistance THEN W_RESISTANCE ELSE F(0))

C4_Witness ==
    /\ pc = "scored"
    /\ IsNaN(LatestWeek.ma30)
    /\ result.condition_low_resistance
    /\ EqF(result.score, W_RESISTANCE)

\* The scenario of the spec: close = 110, ma30 = 100, ma30_prev = 98.
Scenario110(h) ==
    /\ Len(frame) > 1
    /\ EqF(LatestWeek.close, F(110))
    /\ EqF(LatestWeek.ma30, F(100))
    /\ EqF(FramePrevMa30(Len(frame)), F(98))
    /\ EqF(LatestWeek.high, F(h))

\* C5: low_resistance_condition holds exactly when (high - close)/close < 0.05,
\* a false low_resistance_condition removes exactly B's weight, and in the
\* scenario the score is 100 for high = 112 and 66 or 67 for high = 130.
C5_LowResistance ==
    pc = "scored" =>
        /\ result.condition_low_resistance <=> WithinFivePercent(LatestWeek)
        /\ EqF(AddF(result.score,
                    IF result.condition_low_resistance THEN F(0) ELSE W_RESISTANCE),
               WeightSum(result.condition_stage2, TRUE,
                         result.condition_not_overextended))
        /\ Scenario110(112) => EqF(result.score, F(100))
        /\ Scenario110(130) => (EqF(result.score, F(66)) \/ EqF(result.score, F(67)))

C5_ScenarioReached == pc = "scored" /\ Scenario110(130)

----------------------------------------------------------------------------
(* Screening requests over more than a year of weekly bars, against        *)
(* benchmarks that are absent, flat, rising or wiped out in one week.      *)

MaxRsWeeks == 54

\* Weeks at which the benchmark closes at 0.
WipeoutWeeks(n) == {2, 3, n - 1}

\* Benchmarks on the weeks of the instrument: none, flat, a rise in the last
\* week, and a close of 0 in week k followed by a recovery.
BenchmarkShapes(n, cb) ==
    {<<>>,
     [t \in 1..n |-> FlatBar(WeekTs(t), cb)],
     [t \in 1..n |-> FlatBar(WeekTs(t), IF t = n THEN 2 * cb ELSE cb)]}
    \cup {[t \in 1..n |-> FlatBar(WeekTs(t), IF t = k THEN 0 ELSE cb)] : k \in WipeoutWeeks(n)}

InitRelativeStrength ==
    /\ daily = <<>>
    /\ \E n \in (MaxRsWeeks - 2)..MaxRsWeeks, cb \in BaseCloses,
          cl \in {90, 100, 110}, hl \in {112, 130} :
          /\ weekly = WeeklyShape(n, cb, cb, cb, cl, hl)
          /\ indexWeekly \in BenchmarkShapes(n, cb)
    /\ frame = <<>>
    /\ result = NoResult
    /\ IdleIndicators
    /\ IdleConfidence
    /\ IdleHeatmap
    /\ IdleDownload
    /\ IdleFrontend
    /\ IdlePool
    /\ pc = "resampled"

SpecRelativeStrength == InitRelativeStrength /\ [][NextWeinstein]_vars

\* The indicators and the score computed without any benchmark.
FrameAlone == compute_indicators(weekly, <<>>)

\* C13: the stage label of every week and the Weinstein score (with its three
\* conditions) do not depend on the benchmark: whatever the benchmark series,
\* they are those computed from the same bars with a benchmark sharing no
\* timestamp with the instrument, so any two benchmarks give the same.
C13_BenchmarkIndependent ==
    /\ pc \in {"indicators", "scored"} =>
        /\ Len(frame) = Len(weekly)
        /\ \A t \in 1..Len(frame) :
            /\ frame[t].stage = FrameAlone[t].stage
            /\ frame[t].ma30 = FrameAlone[t].ma30
    /\ pc = "scored" => result = apply_filters(FrameAlone)

\* A Stage 2 instrument scored against a benchmark that gives it a defined
\* relative strength.
C13_Witness ==
    /\ pc = "scored"
    /\ indexWeekly # <<>>
    /\ IsNum(LatestWeek.rs)
    /\ LatestWeek.stage = "Stage 2"
    /\ result.condition_stage2

\* The benchmark's return at week t of the instrument, and the weeks of the
\* rolling window that ends at t.
BenchRet(t) == IndexPctChange(weekly, indexWeekly, t)
WipedOut(t) == EqF(BenchRet(t), F(-1))
RsWindow(t) == (t - RS_WINDOW + 1)..t

\* Mean of the ratios of the window at t that are numbers.
MeanOfDefined(t) ==
    DivF(SumDefinedRatio(weekly, indexWeekly, t - RS_WINDOW + 1, t),
         F(Cardinality({i \in RsWindow(t) : IsNum(RsRatio(weekly, indexWeekly, i))})))

\* C14 as stated: a week at which bench_ret = -1 is left out of the 52-period
\* window of every later index: the rolling mean of a window holding such a
\* week is the mean of the fewer values that are left.
C14_WipedOutWeekLeftOut ==
    pc \in {"indicators", "scored"} =>
        \A t \in RS_WINDOW..Len(frame) :
            (\E k \in RsWindow(t) : WipedOut(k)) =>
                /\ IsNum(frame[t].rs)
                /\ EqF(frame[t].rs, MeanOfDefined(t))

\* C14 amended: a week at which bench_ret = -1 gets a ratio that is not a
\* number (x/0), without a division fault, and it is not left out of the
\* window: the 52-period rolling mean of every window that holds such a week
\* is undefined; a window of 52 ratios that are all numbers has their mean.
C14_Amended ==
    pc \in {"indicators", "scored"} =>
        /\ \A k \in 1..Len(frame) :
              WipedOut(k) => ~IsNum(RsRatio(weekly, indexWeekly, k))
        /\ \A t \in 1..Len(frame) :
            /\ t < RS_WINDOW => IsNaN(frame[t].rs)
            /\ (t >= RS_WINDOW /\ \E k \in RsWindow(t) : WipedOut(k)) => IsNaN(frame[t].rs)
            /\ (t >= RS_WINDOW
                  /\ \A k \in RsWindow(t) : IsNum(RsRatio(weekly, indexWeekly, k)))
               => /\ IsNum(frame[t].rs)
                  /\ EqF(frame[t].rs, MeanOfDefined(t))

\* 54 weeks against a benchmark wiped out in week 2: the window ending at week
\* 53 holds week 2, the window ending at week 54 does not.
C14_Witness ==
    /\ pc = "indicators"
    /\ Len(frame) = RS_WINDOW + 2
    /\ WipedOut(2)
    /\ IsNaN(frame[RS_WINDOW + 1].rs)
    /\ IsNum(frame[RS_WINDOW + 2].rs)

----------------------------------------------------------------------------
(* A screening request from daily bars: resample_to_weekly ->              *)
(* compute_indicators -> apply_filters.                                    *)

MaxDays == 3
MaxDay == 20

\* Trading days used by the inputs: Mondays, Wednesdays and Fridays.
TradeDays == {d \in 0..MaxDay : d % 7 \in {2, 4, 6}}

\* (open, high, low, close, volume) of a daily bar.
BarShapes == {<<10, 12, 9, 11, 5>>, <<11, 15, 10, 14, 7>>, <<14, 14, 8, 9, 3>>}

\* The daily series with bars on the days ds, in timestamp order.
RECURSIVE DailyOn(_)
DailyOn(ds) ==
    IF ds = {} THEN {<<>>}
    ELSE LET d == CHOOSE x \in ds : \A y \in ds : x >= y
         IN  {Append(s, Bar(d, b[1], b[2], b[3], b[4], b[5])) :
                 s \in DailyOn(ds \ {d}), b \in BarShapes}

InitPipeline ==
    /\ \E ds \in SUBSET TradeDays :
          /\ Cardinality(ds) <= MaxDays
          /\ daily \in DailyOn(ds)
    /\ weekly = <<>>
    /\ indexWeekly = <<>>
    /\ frame = <<>>
    /\ result = NoResult
    /\ IdleIndicators
    /\ IdleConfidence
    /\ IdleHeatmap
    /\ IdleDownload
    /\ IdleFrontend
    /\ IdlePool
    /\ pc = "fetched"

Resample ==
    /\ pc = "fetched"
    /\ weekly' = resample_to_weekly(daily)
    /\ pc' = "resampled"
    /\ UNCHANGED <<daily, indexWeekly, frame, result>>
    /\ UNCHANGED <<ivars, cvars, svars, dvars, fvars, pvars>>

NextPipeline == Resample \/ ComputeIndicators \/ ApplyFilters

SpecPipeline == InitPipeline /\ [][NextPipeline]_vars

\* The rows of the daily series that fall in the week labelled w.
DaysOfWeek(w) == {i \in 1..Len(daily) : WeekLabel(daily[i].ts) = w}

RECURSIVE VolumeOf(_)
VolumeOf(idxs) ==
    IF idxs = {} THEN 0
    ELSE LET i == CHOOSE i \in idxs : TRUE IN daily[i].volume + VolumeOf(idxs \ {i})

\* C6: every weekly bar that aggregates daily bars has open = the first daily
\* open of its week, high = the maximum daily high, low = the minimum daily
\* low, close = the last daily close and volume = the sum of the daily
\* volumes; every daily bar falls in exactly one weekly bar; and a daily
\* series lying within one week yields exactly one weekly bar.
C6_WeeklyAggregation ==
    pc # "fetched" =>
        /\ \A k \in 1..Len(weekly) :
            LET D == DaysOfWeek(weekly[k].ts)
            IN  /\ weekly[k].volume = VolumeOf(D)
                /\ D # {} =>
                    /\ \E i \in D : /\ \A j \in D : i <= j
                                    /\ weekly[k].open = daily[i].open
                    /\ \E i \in D : /\ \A j \in D : i >= j
                                    /\ weekly[k].close = daily[i].close
                    /\ \E i \in D : weekly[k].high = daily[i].high
                    /\ \A j \in D : ~Lt(weekly[k].high, daily[j].high)
                    /\ \E i \in D : weekly[k].low = daily[i].low
                    /\ \A j \in D : ~Gt(weekly[k].low, daily[j].low)
        /\ \A i \in 1..Len(daily) :
            Cardinality({k \in 1..Len(weekly) : weekly[k].ts = WeekLabel(daily[i].ts)}) = 1
        /\ (Len(daily) > 0 /\ \A i \in 1..Len(daily) :
                                 WeekLabel(daily[i].ts) = WeekLabel(daily[1].ts))
            => Len(weekly) = 1

\* C15 as stated: every weekly bar aggregates at least one daily bar; no
\* weekly bar is emitted for a week without daily bars.
C15_NoEmptyWeek ==
    pc # "fetched" => \A k \in 1..Len(weekly) : DaysOfWeek(weekly[k].ts) # {}

\* C15 amended: the Resampler emits one weekly bar for every week from the
\* week of the first daily bar to the week of the last, in order, also for a
\* week without daily bars: that bar has undefined open, high, low and close
\* and volume 0 (nothing is forward-filled); every other bar has defined
\* prices.
C15_Amended ==
    pc # "fetched" =>
        /\ Len(daily) > 0 =>
            /\ Len(weekly) > 0
            /\ weekly[1].ts = WeekLabel(daily[1].ts)
            /\ weekly[Len(weekly)].ts = WeekLabel(daily[Len(daily)].ts)
        /\ Len(daily) = 0 => Len(weekly) = 0
        /\ \A k \in 2..Len(weekly) : weekly[k].ts = weekly[k - 1].ts + 7
        /\ \A k \in 1..Len(weekly) :
            IF DaysOfWeek(weekly[k].ts) = {}
            THEN /\ IsNaN(weekly[k].open)
                 /\ IsNaN(weekly[k].high)
                 /\ IsNaN(weekly[k].low)
                 /\ IsNaN(weekly[k].close)
                 /\ weekly[k].volume = 0
            ELSE /\ IsNum(weekly[k].open)
                 /\ IsNum(weekly[k].high)
                 /\ IsNum(weekly[k].low)
                 /\ IsNum(weekly[k].close)

\* Daily bars in a first and a third week and none in the week between.
C15_Witness ==
    /\ pc = "resampled"
    /\ Len(weekly) = 3
    /\ DaysOfWeek(weekly[2].ts) = {}
    /\ IsNaN(weekly[2].close)
    /\ IsNum(weekly[1].close)
    /\ IsNum(weekly[3].close)

\* Three daily bars in one week, resampled to the one weekly bar.
C6_Witness ==
    /\ pc = "resampled"
    /\ Len(daily) = 3
    /\ Len(weekly) = 1
    /\ weekly[1].open = daily[1].open
    /\ weekly[1].close = daily[3].close
    /\ weekly[1].close # daily[1].close
    /\ weekly[1].volume = daily[1].volume + daily[2].volume + daily[3].volume

----------------------------------------------------------------------------
(* Key algorithms: calculate_ema, calculate_rsi *)

EMA_PERIODS == {21, 44, 200}
RSI_PERIOD == 14

RECURSIVE EmaAt_MinPeriods(_, _, _)
\* An EMA that is undefined until `period` observations exist
\* (ewm(span=period, adjust=False, min_periods=period)).
EmaAt_MinPeriods(xs, period, t) ==
    IF t < period THEN NaN
    ELSE IF t = 1 THEN F(xs[1])
    ELSE LET y == EmaAt_MinPeriods(xs, period, t - 1)
         IN  IF IsNaN(y) THEN F(xs[t])
             ELSE <<(period - 1) * y[1] + 2 * xs[t] * y[2], (period + 1) * y[2]>>

RECURSIVE EmaAt(_, _, _)
\* prices.ewm(span=period, adjust=False).mean() at index t (1-based):
\* y[1] = x[1], y[t] = (1 - a) * y[t-1] + a * x[t] with a = 2 / (period + 1).
EmaAt(xs, period, t) ==
    IF t = 1 THEN F(xs[1])
    ELSE LET y == EmaAt(xs, period, t - 1)
         IN  <<(period - 1) * y[1] + 2 * xs[t] * y[2], (period + 1) * y[2]>>

calculate_ema(xs, period) == [t \in 1..Len(xs) |-> EmaAt(xs, period, t)]

\* delta = prices.diff(): NaN at the first index.
Delta(xs, t) == IF t < 2 THEN NaN ELSE F(xs[t] - xs[t - 1])

\* gain = delta.where(delta > 0, 0)
Gain(xs, t) == IF Gt(Delta(xs, t), F(0)) THEN Delta(xs, t) ELSE F(0)

\* loss = -delta.where(delta < 0, 0)
Loss(xs, t) == NegF(IF Lt(Delta(xs, t), F(0)) THEN Delta(xs, t) ELSE F(0))

RECURSIVE SumGain(_, _, _)
SumGain(xs, lo, hi) ==
    IF lo > hi THEN F(0) ELSE AddF(Gain(xs, hi), SumGain(xs, lo, hi - 1))

RECURSIVE SumLoss(_, _, _)
SumLoss(xs, lo, hi) ==
    IF lo > hi THEN F(0) ELSE AddF(Loss(xs, hi), SumLoss(xs, lo, hi - 1))

\* gain.rolling(window=period).mean() and loss.rolling(window=period).mean()
AvgGain(xs, period, t) ==
    IF t < period THEN NaN ELSE DivF(SumGain(xs, t - period + 1, t), F(period))

AvgLoss(xs, period, t) ==
    IF t < period THEN NaN ELSE DivF(SumLoss(xs, t - period + 1, t), F(period))

\* An RSI whose division by a zero average loss yields NaN instead of inf.
RsiAt_ZeroDivNaN(xs, period, t) ==
    LET g == AvgGain(xs, period, t)
        l == AvgLoss(xs, period, t)
        rs == IF IsNum(l) /\ l[1] = 0 THEN NaN ELSE DivF(g, l)
    IN  SubF(F(100), DivF(F(100), AddF(F(1), rs)))

\* rs = avg_gain / avg_loss; rsi = 100 - (100 / (1 + rs))
RsiAt(xs, period, t) ==
    LET rs == DivF(AvgGain(xs, period, t), AvgLoss(xs, period, t))
    IN  SubF(F(100), DivF(F(100), AddF(F(1), rs)))

calculate_rsi(xs, period) == [t \in 1..Len(xs) |-> RsiAt(xs, period, t)]

----------------------------------------------------------------------------
(* Indicator requests: a close series handed to calculate_ema (all three   *)
(* periods) or to calculate_rsi.                                           *)

MaxEmaLen == 3
MaxRsiLen == 15

EmaCloses == {9, 10, 12}
RsiCloses == {10, 11}

SeqsUpTo(S, n) == UNION {[1..k -> S] : k \in 0..n}

InitIndicators ==
    /\ IdleWeinstein
    /\ prices \in SeqsUpTo(EmaCloses, MaxEmaLen) \cup SeqsUpTo(RsiCloses, MaxRsiLen)
    /\ ema = <<>>
    /\ rsi = <<>>
    /\ IdleConfidence
    /\ IdleHeatmap
    /\ IdleDownload
    /\ IdleFrontend
    /\ IdlePool
    /\ pc = "loaded"

\* The exact EMA is kept for series of at most MaxEmaLen closes (its
\* denominator is (period + 1)^(length - 1)).
CalculateEMA ==
    /\ pc = "loaded"
    /\ Len(prices) <= MaxEmaLen
    /\ ema' = [p \in EMA_PERIODS |-> calculate_ema(prices, p)]
    /\ pc' = "ema"
    /\ UNCHANGED <<prices, rsi>>
    /\ UNCHANGED <<wvars, cvars, svars, dvars, fvars, pvars>>

CalculateRSI ==
    /\ pc = "loaded"
    /\ rsi' = calculate_rsi(prices, RSI_PERIOD)
    /\ pc' = "rsi"
    /\ UNCHANGED <<prices, ema>>
    /\ UNCHANGED <<wvars, cvars, svars, dvars, fvars, pvars>>

NextIndicators == CalculateEMA \/ CalculateRSI

SpecIndicators == InitIndicators /\ [][NextIndicators]_vars

\* C8 as stated: for every period p, the EMA at each index smaller than p-1
\* (0-based) is the undefined marker.
C8_EmaUndefinedBeforeWindow ==
    pc = "ema" =>
        \A p \in EMA_PERIODS : \A t \in 1..Len(prices) :
            (t - 1 < p - 1) => IsNaN(ema[p][t])

\* C8 amended: for every period p the EMA is a number at every index of the
\* series, also before p-1: it starts at the first close and then follows
\* y[t] = (2 * close[t] + (p - 1) * y[t-1]) / (p + 1); it is never the
\* undefined marker, and never 0 for positive closes.
C8_Amended ==
    pc = "ema" =>
        \A p \in EMA_PERIODS :
            /\ Len(ema[p]) = Len(prices)
            /\ \A t \in 1..Len(prices) :
                /\ IsNum(ema[p][t])
                /\ ~EqF(ema[p][t], F(0))
                /\ t = 1 => EqF(ema[p][t], F(prices[1]))
                /\ t > 1 =>
                    LET y == ema[p][t]
                        y1 == ema[p][t - 1]
                    IN  \* y = (2 * close[t] + (p - 1) * y1) / (p + 1), on the
                        \* fractions as kept (y[2] = (p + 1) * y1[2])
                        /\ y[2] = (p + 1) * y1[2]
                        /\ y[1] - (p - 1) * y1[1] = 2 * prices[t] * y1[2]

\* A series shorter than every period, with its EMAs computed.
C8_Witness ==
    /\ pc = "ema"
    /\ Len(prices) = 3
    /\ prices[1] # prices[2]
    /\ \A p \in EMA_PERIODS : IsNum(ema[p][1]) /\ IsNum(ema[p][3])

\* No close of the 14-row window ending at t is below the close before it.
NoDecrease(t) ==
    \A i \in (t - RSI_PERIOD + 1)..t : i > 1 => prices[i] >= prices[i - 1]

SomeIncrease(t) ==
    \E i \in (t - RSI_PERIOD + 1)..t : i > 1 /\ prices[i] > prices[i - 1]

\* C9 as stated: at every index with 14 periods of history whose window has
\* no price decrease (average loss 0), constant windows included, RSI is 100.
C9_RsiHundredWhenNoLoss ==
    pc = "rsi" =>
        \A t \in RSI_PERIOD..Len(prices) :
            NoDecrease(t) => EqF(rsi[t], F(100))

\* C9 amended: at every index with 14 periods of history whose window has no
\* price decrease, RSI is 100 when the window holds at least one increase
\* (average gain > 0), and the undefined marker when all its closes are
\* identical (0/0); a window with a decrease gives a number in [0, 100).
C9_Amended ==
    pc = "rsi" =>
        /\ Len(rsi) = Len(prices)
        /\ \A t \in 1..Len(prices) :
            /\ t < RSI_PERIOD => IsNaN(rsi[t])
            /\ (t >= RSI_PERIOD /\ NoDecrease(t) /\ SomeIncrease(t)) => EqF(rsi[t], F(100))
            /\ (t >= RSI_PERIOD /\ NoDecrease(t) /\ ~SomeIncrease(t)) => IsNaN(rsi[t])
            /\ (t >= RSI_PERIOD /\ ~NoDecrease(t)) =>
                  /\ IsNum(rsi[t])
                  /\ Lt(rsi[t], F(100))
                  /\ ~Lt(rsi[t], F(0))

\* A window of 14 closes that only rises, with RSI 100.
C9_Witness ==
    /\ pc = "rsi"
    /\ Len(prices) >= RSI_PERIOD
    /\ NoDecrease(Len(prices))
    /\ SomeIncrease(Len(prices))
    /\ EqF(rsi[Len(prices)], F(100))

C9_WitnessConstant ==
    /\ pc = "rsi"
    /\ Len(prices) >= RSI_PERIOD
    /\ NoDecrease(Len(prices))
    /\ ~SomeIncrease(Len(prices))
    /\ IsNaN(rsi[Len(prices)])

----------------------------------------------------------------------------
(* routes/analysis.py: the 100-point analysis score of GET /api/analysis/data *)

\* A score that counts an undefined RSI as neutral.
analysis_score_NaNNeutral(v) ==
    LET rsi_points == IF IsNaN(v.rsi) \/ (~Lt(v.rsi, F(30)) /\ ~Gt(v.rsi, F(70)))
                      THEN 25 ELSE 0
        macd_points == IF Gt(v.macd, v.macd_signal) THEN 25 ELSE 0
        cross_points == IF Gt(v.ema_21, v.ema_44) THEN 25 ELSE 0
        trend_points == IF Gt(v.close, v.ema_200) THEN 25 ELSE 0
    IN  [rsi_component |-> rsi_points,
         macd_component |-> macd_points,
         ema_cross_component |-> cross_points,
         ema200_component |-> trend_points,
         total |-> rsi_points + macd_points + cross_points + trend_points]

\* RSI 30-70: +25; MACD bullish (macd > signal): +25; EMA 21 > EMA 44: +25;
\* price > EMA 200: +25.  A comparison with an undefined value is False.
analysis_score(v) ==
    LET rsi_points == IF Ge(v.rsi, F(30)) /\ Le(v.rsi, F(70)) THEN 25 ELSE 0
        macd_points == IF Gt(v.macd, v.macd_signal) THEN 25 ELSE 0
        cross_points == IF Gt(v.ema_21, v.ema_44) THEN 25 ELSE 0
        trend_points == IF Gt(v.close, v.ema_200) THEN 25 ELSE 0
    IN  [rsi_component |-> rsi_points,
         macd_component |-> macd_points,
         ema_cross_component |-> cross_points,
         ema200_component |-> trend_points,
         total |-> rsi_points + macd_points + cross_points + trend_points]

\* Latest indicator values of a stock; each may be undefined.
RsiValues == {NaN, F(20), F(30), F(50), F(70), F(100)}
MacdValues == {NaN, F(-1), F(1)}
SignalValues == {NaN, F(0)}
Ema21Values == {NaN, F(10), F(12)}
Ema44Values == {NaN, F(11)}
Ema200Values == {NaN, F(10), F(12)}
CloseValues == {F(11)}

InitConfidence ==
    /\ IdleWeinstein
    /\ IdleIndicators
    /\ latest \in [rsi : RsiValues, macd : MacdValues, macd_signal : SignalValues,
                   ema_21 : Ema21Values, ema_44 : Ema44Values,
                   ema_200 : Ema200Values, close : CloseValues]
    /\ confidence = <<>>
    /\ IdleHeatmap
    /\ IdleDownload
    /\ IdleFrontend
    /\ IdlePool
    /\ pc = "indicators_ready"

ComputeScore ==
    /\ pc = "indicators_ready"
    /\ confidence' = analysis_score(latest)
    /\ pc' = "confidence"
    /\ UNCHANGED latest
    /\ UNCHANGED <<wvars, ivars, svars, dvars, fvars, pvars>>

NextConfidence == ComputeScore

SpecConfidence == InitConfidence /\ [][NextConfidence]_vars

\* C3: for every input, undefined indicators included, each of the four
\* components is 25 when its predicate holds (RSI in the 30-70 band,
\* macd > signal, ema_21 > ema_44, close > ema_200) and 0 otherwise (always
\* 0 on an undefined input), and total is their sum: 0, 25, 50, 75 or 100.
C3_ConfidenceComponents ==
    pc = "confidence" =>
        /\ confidence.rsi_component \in {0, 25}
        /\ confidence.macd_component \in {0, 25}
        /\ confidence.ema_cross_component \in {0, 25}
        /\ confidence.ema200_component \in {0, 25}
        /\ (confidence.rsi_component = 25) <=>
              (~IsNaN(latest.rsi) /\ ~Lt(latest.rsi, F(30)) /\ ~Gt(latest.rsi, F(70)))
        /\ (confidence.macd_component = 25) <=> Gt(latest.macd, latest.macd_signal)
        /\ (confidence.ema_cross_component = 25) <=> Gt(latest.ema_21, latest.ema_44)
        /\ (confidence.ema200_component = 25) <=> Gt(latest.close, latest.ema_200)
        /\ IsNaN(latest.rsi) => confidence.rsi_component = 0
        /\ (IsNaN(latest.macd) \/ IsNaN(latest.macd_signal)) => confidence.macd_component = 0
        /\ (IsNaN(latest.ema_21) \/ IsNaN(latest.ema_44)) => confidence.ema_cross_component = 0
        /\ IsNaN(latest.ema_200) => confidence.ema200_component = 0
        /\ confidence.total = confidence.rsi_component + confidence.macd_component
                              + confidence.ema_cross_component + confidence.ema200_component
        /\ confidence.total \in {0, 25, 50, 75, 100}

\* A stock with an undefined RSI and the three other predicates true: 75.
C3_Witness ==
    /\ pc = "confidence"
    /\ IsNaN(latest.rsi)
    /\ confidence.rsi_component = 0
    /\ confidence.total = 75

----------------------------------------------------------------------------
(* routes/ohlcv.py: GET /api/ohlcv/sector-heatmap.  The response is the      *)
(* sectors with their ranked stocks; the sector's own figures (change,      *)
(* 20-day average volume, market cap) are not part of the model.            *)

TOP_MOVERS == 10

\* ((latest - start) / start) * 100
ChangePercent(st) ==
    MulF(DivF(SubF(F(st.latest), F(st.start)), F(st.start)), F(100))

AbsF(x) == IF Lt(x, F(0)) THEN NegF(x) ELSE x

Front(s) == SubSeq(s, 1, Len(s) - 1)

\* x put behind every element of s whose absolute change is not smaller.
InsertByAbsChange(s, x) ==
    LET k == Cardinality({i \in 1..Len(s) :
                            ~Lt(AbsF(ChangePercent(s[i])), AbsF(ChangePercent(x)))})
    IN  SubSeq(s, 1, k) \o <<x>> \o SubSeq(s, k + 1, Len(s))

RECURSIVE SortByAbsChange(_)
\* A ranking by the size of the move, whatever its sign.
SortByAbsChange(s) ==
    IF s = <<>> THEN <<>>
    ELSE LET rest == SortByAbsChange(Front(s))
         IN  InsertByAbsChange(rest, s[Len(s)])

\* x put behind every element of the descending sequence s whose change is not
\* smaller: equal changes keep the order in which they were read (list.sort
\* and sorted are stable, also with reverse=True).
InsertByChange(s, x) ==
    LET k == Cardinality({i \in 1..Len(s) : ~Lt(ChangePercent(s[i]), ChangePercent(x))})
    IN  SubSeq(s, 1, k) \o <<x>> \o SubSeq(s, k + 1, Len(s))

RECURSIVE SortByChange(_)
\* "Sort by % change (descending)"
SortByChange(s) ==
    IF s = <<>> THEN <<>>
    ELSE LET rest == SortByChange(Front(s))
         IN  InsertByChange(rest, s[Len(s)])

\* "Take top 10 movers"
TopMovers(s) ==
    LET sorted == SortByChange(s)
    IN  SubSeq(sorted, 1, IF Len(sorted) < TOP_MOVERS THEN Len(sorted) ELSE TOP_MOVERS)

\* The stocks of one sector, in the order read.
StocksOf(all, sector) ==
    LET InSector(st) == st.sector = sector
    IN  SelectSeq(all, InSector)

RECURSIVE SectorsInOrder(_)
\* "Group stocks by sector": the sectors in order of first appearance.
SectorsInOrder(all) ==
    IF all = <<>> THEN <<>>
    ELSE LET before == SectorsInOrder(Front(all))
             sec == all[Len(all)].sector
         IN  IF \E i \in 1..Len(before) : before[i] = sec THEN before
             ELSE Append(before, sec)

sector_heatmap(all) ==
    LET secs == SectorsInOrder(all)
    IN  [k \in 1..Len(secs) |->
            LET movers == TopMovers(StocksOf(all, secs[k]))
            IN  [name |-> secs[k],
                 stocks |-> [i \in 1..Len(movers) |->
                                [symbol |-> movers[i].symbol,
                                 change_percent |-> ChangePercent(movers[i])]]]]

----------------------------------------------------------------------------
(* Heatmap requests on one snapshot of the stocks.  A symbol is a number:  *)
(* symbol k is the k-th symbol in lexical order.                          *)

MaxStocks == 11
MaxFree == 4
MaxRuns == 2

\* (start, latest) closes: -5 %, +1 % and +1 % again at other prices.
PricePairs == {<<100, 95>>, <<100, 101>>, <<200, 202>>}

\* The prices of n stocks: those of the first MaxFree stocks are free, the
\* later ones alternate between -5 % and +1 %.
PriceLists(n) ==
    {[i \in 1..n |-> IF i <= MaxFree THEN f[i]
                     ELSE IF i % 2 = 0 THEN <<100, 95>> ELSE <<100, 101>>] :
        f \in [1..MaxFree -> PricePairs]}

\* n stocks read in ascending (up) or descending symbol order; the last `other`
\* of them belong to a second sector.
StockList(n, up, other, pp) ==
    [i \in 1..n |->
        [symbol |-> IF up THEN i ELSE n + 1 - i,
         sector |-> IF i > n - other THEN "IT" ELSE "Energy",
         start |-> pp[i][1],
         latest |-> pp[i][2]]]

InitHeatmap ==
    /\ IdleWeinstein
    /\ IdleIndicators
    /\ IdleConfidence
    /\ \E n \in 0..MaxStocks, up \in BOOLEAN, other \in 0..1 :
          /\ other <= n
          /\ \E pp \in PriceLists(n) : stocks = StockList(n, up, other, pp)
    /\ responses = <<>>
    /\ IdleDownload
    /\ IdleFrontend
    /\ IdlePool
    /\ pc = "snapshot"

SectorHeatmap ==
    /\ pc = "snapshot"
    /\ Len(responses) < MaxRuns
    /\ responses' = Append(responses, sector_heatmap(stocks))
    /\ UNCHANGED <<stocks, pc>>
    /\ UNCHANGED <<wvars, ivars, cvars, dvars, fvars, pvars>>

NextHeatmap == SectorHeatmap

SpecHeatmap == InitHeatmap /\ [][NextHeatmap]_vars

\* Read positions of the stocks of a sector, and of a symbol.
Members(sec) == {i \in 1..Len(stocks) : stocks[i].sector = sec}
PosOf(sym) == CHOOSE i \in 1..Len(stocks) : stocks[i].symbol = sym

\* Stock a ranks before stock b: larger absolute change, ties by symbol.
BeforeByAbsThenSymbol(a, b) ==
    LET ca == AbsF(ChangePercent(stocks[a]))
        cb == AbsF(ChangePercent(stocks[b]))
    IN  Gt(ca, cb) \/ (EqF(ca, cb) /\ stocks[a].symbol < stocks[b].symbol)

\* Stock a ranks before stock b: larger signed change, ties by read order.
BeforeByChangeThenRead(a, b) ==
    LET ca == ChangePercent(stocks[a])
        cb == ChangePercent(stocks[b])
    IN  Gt(ca, cb) \/ (EqF(ca, cb) /\ a < b)

Before(byAbs, a, b) ==
    IF byAbs THEN BeforeByAbsThenSymbol(a, b) ELSE BeforeByChangeThenRead(a, b)

\* Every sector of every response lists the first TOP_MOVERS members of the
\* ranking, in that order, and all responses are identical.
Ranked(byAbs) ==
    /\ \A r \in 1..Len(responses) : \A k \in 1..Len(responses[r]) :
        LET M == Members(responses[r][k].name)
            L == responses[r][k].stocks
            P == [i \in 1..Len(L) |-> PosOf(L[i].symbol)]
        IN  /\ M # {}
            /\ Len(L) = IF Cardinality(M) < TOP_MOVERS THEN Cardinality(M) ELSE TOP_MOVERS
            /\ \A i \in 1..Len(L) : /\ P[i] \in M
                                   /\ L[i].change_percent = ChangePercent(stocks[P[i]])
            /\ \A i, j \in 1..Len(L) : i < j => Before(byAbs, P[i], P[j])
            /\ \A m \in M : (\A i \in 1..Len(L) : P[i] # m)
                                => \A i \in 1..Len(L) : Before(byAbs, P[i], m)
    /\ \A r \in 1..Len(responses) :
        /\ \A i \in 1..Len(stocks) :
              \E k \in 1..Len(responses[r]) : responses[r][k].name = stocks[i].sector
        /\ responses[r] = responses[1]

----------------------------------------------------------------------------
(* The heatmap over a requested window when prices are missing.  The route *)
(* itself is documented by its algorithm only; what it does with a stock   *)
(* that has no price at start_date is taken from the specification of the  *)
(* SectorAggregator: such a stock has no valid percent change and is not a *)
(* member, and a sector left without members is omitted.                   *)

\* The start price of a stock without a close at or before start_date.
NoPrice == 0

HasValidChange(st) == st.start # NoPrice

\* Members kept whether or not they have a start price.
ValidMembers_KeepAll(members) == members

\* The members of a sector that have a valid percent change.
ValidMembers(members) == SelectSeq(members, HasValidChange)

\* The SectorSummary list: one per sector that has members, sectors without
\* members left out; the response is an ordinary one, not an error.
sector_summaries(all) ==
    LET secs == SectorsInOrder(all)
        summaries == [k \in 1..Len(secs) |->
            LET members == ValidMembers(StocksOf(all, secs[k]))
                movers == TopMovers(members)
            IN  [name |-> secs[k],
                 members |-> Len(members),
                 stocks |-> [i \in 1..Len(movers) |->
                                [symbol |-> movers[i].symbol,
                                 change_percent |->
                                     IF HasValidChange(movers[i])
                                     THEN ChangePercent(movers[i]) ELSE NaN]]]]
        NotEmpty(sm) == sm.members > 0
    IN  [error |-> FALSE, sectors |-> SelectSeq(summaries, NotEmpty)]

MaxGapStocks == 3

GapSectors == {"Energy", "IT"}
GapStarts == {NoPrice, 100}
GapLatests == {95, 101}

\* Up to MaxGapStocks stocks, symbol k read k-th, each with or without a
\* price at start_date.
GapStockLists ==
    UNION {{[i \in 1..n |-> [symbol |-> i, sector |-> f[i].sector,
                             start |-> f[i].start, latest |-> f[i].latest]] :
               f \in [1..n -> [sector : GapSectors, start : GapStarts, latest : GapLatests]]} :
           n \in 0..MaxGapStocks}

InitHeatmapWindow ==
    /\ IdleWeinstein
    /\ IdleIndicators
    /\ IdleConfidence
    /\ stocks \in GapStockLists
    /\ responses = <<>>
    /\ IdleDownload
    /\ IdleFrontend
    /\ IdlePool
    /\ pc = "window"

\* GET /api/ohlcv/sector-heatmap for a window in which some stocks have no
\* start price.
SectorHeatmapWindow ==
    /\ pc = "window"
    /\ Len(responses) < MaxRuns
    /\ responses' = Append(responses, sector_summaries(stocks))
    /\ UNCHANGED <<stocks, pc>>
    /\ UNCHANGED <<wvars, ivars, cvars, dvars, fvars, pvars>>

NextHeatmapWindow == SectorHeatmapWindow

SpecHeatmapWindow == InitHeatmapWindow /\ [][NextHeatmapWindow]_vars

----------------------------------------------------------------------------
(* services/data_fetcher.py: download_5year_data, followed by a screening  *)
(* of one stored symbol.                                                   *)

RECURSIVE Dedupe(_)
\* list(dict.fromkeys(symbols)): first occurrences, in order.
Dedupe(s) ==
    IF s = <<>> THEN <<>>
    ELSE LET before == Dedupe(Front(s))
         IN  IF \E i \in 1..Len(before) : before[i] = s[Len(s)] THEN before
             ELSE Append(before, s[Len(s)])

\* Insert every fetched row, market-closed days included.
RowsToInsert_NoSkip(sym, rows) ==
    {[symbol |-> sym, timestamp |-> rows[i].timestamp, open |-> rows[i].open,
      high |-> rows[i].high, low |-> rows[i].low, close |-> rows[i].close,
      volume |-> rows[i].volume] : i \in 1..Len(rows)}

\* The OHLCV objects added to the session for one symbol: the rows of df
\* except those with close == 0.
RowsToInsert(sym, rows) ==
    {[symbol |-> sym, timestamp |-> rows[i].timestamp, open |-> rows[i].open,
      high |-> rows[i].high, low |-> rows[i].low, close |-> rows[i].close,
      volume |-> rows[i].volume] : i \in {j \in 1..Len(rows) : rows[j].close # 0}}

\* db.session.commit() succeeds when UNIQUE(symbol, timestamp) is kept.
CommitOk(table, added) ==
    \A r1, r2 \in table \cup added :
        (r1.symbol = r2.symbol /\ r1.timestamp = r2.timestamp) => r1 = r2

\* A rollback that leaves the pending rows of the failed symbol in the table.
Rollback_KeepPending(table, pending) == table \cup pending

\* db.session.rollback(): the rows added since the last commit are discarded.
Rollback(table, pending) == table

\* OHLCV rows of a symbol ordered by timestamp, as bars.
RECURSIVE BarsByTime(_)
BarsByTime(rows) ==
    IF rows = {} THEN <<>>
    ELSE LET r == CHOOSE x \in rows : \A y \in rows : x.timestamp >= y.timestamp
         IN  Append(BarsByTime(rows \ {r}),
                    Bar(r.timestamp, r.open, r.high, r.low, r.close, r.volume))

StoredBars(table, sym) == BarsByTime({r \in table : r.symbol = sym})

MaxCsv == 2
MaxRows == 2

SymbolNames == {"RELIANCE.NS", "TCS.NS"}

\* Days with data: the Monday and Wednesday of one week, the Monday of the next.
DlDays == {2, 4, 9}

Row(ts, o, h, l, c, v) ==
    [timestamp |-> ts, open |-> o, high |-> h, low |-> l, close |-> c, volume |-> v]

\* A traded day, or a market-closed day (close = 0).
RowsOn(d) == {Row(d, 10 + d, 12 + d, 9 + d, 11 + d, 5), Row(d, 0, 0, 0, 0, 0)}

RECURSIVE RowSeqsOn(_)
RowSeqsOn(ds) ==
    IF ds = {} THEN {<<>>}
    ELSE LET d == CHOOSE x \in ds : \A y \in ds : x >= y
         IN  {Append(q, r) : q \in RowSeqsOn(ds \ {d}), r \in RowsOn(d)}

\* What the Kite API gives for a symbol: an error, rows on at most MaxRows
\* days, or two different rows with the same timestamp.
KiteAnswers ==
    {[ok |-> FALSE, rows |-> <<>>]}
    \cup {[ok |-> TRUE, rows |-> q] :
            q \in UNION {RowSeqsOn(ds) : ds \in {x \in SUBSET DlDays : Cardinality(x) <= MaxRows}}}
    \cup {[ok |-> TRUE, rows |-> <<Row(2, 12, 14, 11, 13, 5), Row(2, 12, 15, 11, 14, 6)>>]}

StaleRow ==
    [symbol |-> "RELIANCE.NS", timestamp |-> 2, open |-> 0, high |-> 0, low |-> 0,
     close |-> 0, volume |-> 0]

InitDownload ==
    /\ IdleWeinstein
    /\ IdleIndicators
    /\ IdleConfidence
    /\ IdleHeatmap
    /\ csv \in SeqsUpTo(SymbolNames, MaxCsv)
    /\ kite \in [SymbolNames -> KiteAnswers]
    /\ kite_calls = <<>>
    /\ db = {StaleRow}
    /\ symbols = <<>>
    /\ idx = 0
    /\ success_count = 0
    /\ emitted = <<>>
    /\ target = ""
    /\ IdleFrontend
    /\ IdlePool
    /\ pc = "idle"

\* Steps 1 and 2: read the symbols, clear the table.
StartDownload ==
    /\ pc = "idle"
    /\ symbols' = Dedupe(csv)
    /\ db' = {}
    /\ idx' = 0
    /\ success_count' = 0
    /\ pc' = "downloading"
    /\ UNCHANGED <<csv, kite, kite_calls, emitted, target>>
    /\ UNCHANGED <<wvars, ivars, cvars, svars, fvars, pvars>>

\* One iteration of the loop over the symbols.
DownloadSymbol ==
    /\ pc = "downloading"
    /\ idx < Len(symbols)
    /\ LET symbol == symbols[idx + 1]
           total == Len(symbols)
           added == RowsToInsert(symbol, kite[symbol].rows)
       IN  IF kite[symbol].ok /\ CommitOk(db, added)
           THEN /\ db' = db \cup added
                /\ success_count' = success_count + 1
                /\ emitted' = Append(emitted,
                                 [status |-> "processing", current |-> idx + 1,
                                  total |-> total,
                                  progress |-> ((idx + 1) * 100) \div total,
                                  symbol |-> symbol])
           ELSE \* except: logger.error, db.session.rollback()
                /\ db' = Rollback(db, added)
                /\ UNCHANGED <<success_count, emitted>>
    /\ kite_calls' = Append(kite_calls, symbols[idx + 1])
    /\ idx' = idx + 1
    /\ UNCHANGED <<csv, kite, symbols, target, pc>>
    /\ UNCHANGED <<wvars, ivars, cvars, svars, fvars, pvars>>

\* The final status after the loop.
FinishDownload ==
    /\ pc = "downloading"
    /\ idx = Len(symbols)
    /\ emitted' = Append(emitted,
                     [status |-> "completed",
                      message |-> <<success_count, Len(symbols)>>])
    /\ pc' = "done"
    /\ UNCHANGED <<csv, kite, kite_calls, db, symbols, idx, success_count, target>>
    /\ UNCHANGED <<wvars, ivars, cvars, svars, fvars, pvars>>

\* GET /api/weinstein/scores for one symbol with stored rows.
ScreenSymbol ==
    /\ pc = "done"
    /\ \E sym \in SymbolNames :
        /\ StoredBars(db, sym) # <<>>
        /\ target' = sym
        /\ daily' = StoredBars(db, sym)
        /\ weekly' = resample_to_weekly(StoredBars(db, sym))
        /\ frame' = compute_indicators(resample_to_weekly(StoredBars(db, sym)), <<>>)
        /\ result' = apply_filters(compute_indicators(resample_to_weekly(StoredBars(db, sym)), <<>>))
    /\ indexWeekly' = <<>>
    /\ pc' = "screened"
    /\ UNCHANGED <<csv, kite, kite_calls, db, symbols, idx, success_count, emitted>>
    /\ UNCHANGED <<ivars, cvars, svars, fvars, pvars>>

NextDownload == StartDownload \/ DownloadSymbol \/ FinishDownload \/ ScreenSymbol

SpecDownload == InitDownload /\ [][NextDownload]_vars

\* download_5year_data is one sequential function: each of its steps is taken
\* once it is reached (a fetch returns or raises).
SpecDownloadFair ==
    /\ SpecDownload
    /\ WF_vars(StartDownload)
    /\ WF_vars(DownloadSymbol)
    /\ WF_vars(FinishDownload)

\* The fetched rows of a symbol without the zero-close rows, as bars.
CleanBars(sym) ==
    BarsByTime({[symbol |-> sym, timestamp |-> kite[sym].rows[i].timestamp,
                 open |-> kite[sym].rows[i].open, high |-> kite[sym].rows[i].high,
                 low |-> kite[sym].rows[i].low, close |-> kite[sym].rows[i].close,
                 volume |-> kite[sym].rows[i].volume] :
                    i \in {j \in 1..Len(kite[sym].rows) : kite[sym].rows[j].close > 0}})

RECURSIVE FetchedVolume(_, _)
\* Volume of the fetched rows js of a symbol.
FetchedVolume(sym, js) ==
    IF js = {} THEN 0
    ELSE LET j == CHOOSE x \in js : TRUE
         IN  kite[sym].rows[j].volume + FetchedVolume(sym, js \ {j})

\* C10: from the start of a download on, no stored row has close = 0 and every
\* stored row is a fetched row; and the daily series, the weekly bars, the
\* indicators and the score of a screened symbol are those computed from its
\* fetched rows with the zero-close rows left out.
C10_ZeroCloseExcluded ==
    /\ pc \in {"downloading", "done", "screened"} =>
        \A r \in db :
            /\ r.close # 0
            /\ \E i \in 1..Len(kite[r.symbol].rows) :
                  /\ kite[r.symbol].rows[i].timestamp = r.timestamp
                  /\ kite[r.symbol].rows[i].close = r.close
    /\ pc = "screened" =>
        /\ daily = CleanBars(target)
        /\ weekly = resample_to_weekly(CleanBars(target))
        /\ frame = compute_indicators(resample_to_weekly(CleanBars(target)), <<>>)
        /\ result = apply_filters(frame)
        /\ \A t \in 1..Len(daily) : Gt(daily[t].close, F(0))
        /\ \A k \in 1..Len(weekly) :
            /\ ~EqF(weekly[k].close, F(0))
            /\ ~EqF(weekly[k].low, F(0))
            /\ weekly[k].volume =
                  FetchedVolume(target,
                      {j \in 1..Len(kite[target].rows) :
                          /\ kite[target].rows[j].close > 0
                          /\ WeekLabel(kite[target].rows[j].timestamp) = weekly[k].ts})

\* A symbol fetched with a zero-close row between traded days, stored and
\* screened.
C10_Witness ==
    /\ pc = "screened"
    /\ \E i \in 1..Len(kite[target].rows) : kite[target].rows[i].close = 0
    /\ Len(daily) > 0
    /\ Len(daily) < Len(kite[target].rows)
    /\ Len(weekly) > 0

----------------------------------------------------------------------------
(* Claims about the batch as a whole (SpecDownloadFair) *)

\* The fetch of a symbol raises, or its rows break UNIQUE(symbol, timestamp).
FailsFor(sym) ==
    \/ ~kite[sym].ok
    \/ \E i, j \in 1..Len(kite[sym].rows) :
          /\ i # j
          /\ kite[sym].rows[i].close # 0
          /\ kite[sym].rows[j].close # 0
          /\ kite[sym].rows[i].timestamp = kite[sym].rows[j].timestamp

EventsWith(status) == {i \in 1..Len(emitted) : emitted[i].status = status}

C11_Safety ==
    /\ pc \in {"downloading", "done", "screened"} =>
        \* attempted in list order, one call per symbol
        /\ kite_calls = SubSeq(symbols, 1, idx)
        /\ \A i, j \in 1..Len(kite_calls) : kite_calls[i] = kite_calls[j] => i = j
        \* a failing symbol contributes no records, a successful one all of its
        \* non-zero rows
        /\ \A i \in 1..idx :
            IF FailsFor(symbols[i])
            THEN \A r \in db : r.symbol # symbols[i]
            ELSE {r \in db : r.symbol = symbols[i]}
                     = RowsToInsert(symbols[i], kite[symbols[i]].rows)
        /\ success_count = Cardinality({i \in 1..idx : ~FailsFor(symbols[i])})
    /\ pc = "downloading" => EventsWith("completed") = {}
    /\ pc \in {"done", "screened"} =>
        /\ idx = Len(symbols)
        /\ kite_calls = symbols
        /\ EventsWith("completed") = {Len(emitted)}
        /\ emitted[Len(emitted)].message =
              <<Cardinality({i \in 1..Len(symbols) : ~FailsFor(symbols[i])}),
                Len(symbols)>>

\* C11: a failure while fetching or inserting one symbol does not abort the
\* batch: every symbol of the list is attempted exactly once, in list order,
\* a failing symbol contributes no records, and the run always ends by
\* emitting one 'completed' event whose tally is the number of symbols that
\* succeeded out of the total.
C11_BatchSurvivesFailures == []C11_Safety /\ <>(pc = "done")

\* A finished batch of two symbols whose first symbol failed at the commit and
\* whose second symbol was stored.
C11_Witness ==
    /\ pc = "done"
    /\ Len(symbols) = 2
    /\ kite[symbols[1]].ok
    /\ FailsFor(symbols[1])
    /\ ~FailsFor(symbols[2])
    /\ \E r \in db : r.symbol = symbols[2]
    /\ emitted[Len(emitted)].message = <<1, 2>>

----------------------------------------------------------------------------
(* frontend/src/components/Analysis.js with its CandlestickChart            *)
(* (frontend/src/components/CandlestickChart.js).  A stock of the table is  *)
(* its symbol and its score; a score is a number, Null or Undefined (the    *)
(* key is missing).                                                         *)

\* x || 0
OrZero(x) == IF x.js = "number" THEN x.v ELSE 0

\* An insertion that ranks the lowest score first.
InsertByScore_Ascending(s, x) ==
    LET k == Cardinality({i \in 1..Len(s) : OrZero(s[i].score) <= OrZero(x.score)})
    IN  SubSeq(s, 1, k) \o <<x>> \o SubSeq(s, k + 1, Len(s))

\* x put behind every element of s whose (score || 0) is not smaller:
\* Array.prototype.sort is stable.
InsertByScore(s, x) ==
    LET k == Cardinality({i \in 1..Len(s) : OrZero(s[i].score) >= OrZero(x.score)})
    IN  SubSeq(s, 1, k) \o <<x>> \o SubSeq(s, k + 1, Len(s))

RECURSIVE SortByScore(_)
\* dataWithScores.sort((a, b) => (b.score || 0) - (a.score || 0))
SortByScore(s) ==
    IF s = <<>> THEN <<>>
    ELSE InsertByScore(SortByScore(Front(s)), s[Len(s)])

getScoreClass(score) ==
    IF score >= 80 THEN "score-excellent"
    ELSE IF score >= 60 THEN "score-good"
    ELSE IF score >= 40 THEN "score-moderate"
    ELSE "score-weak"

\* The symbol and score cells of one table row.
RenderRow(stock) ==
    [symbol |-> stock.symbol,
     score_class |-> getScoreClass(OrZero(stock.score)),
     score_cell |-> OrZero(stock.score)]

\* The table body; nothing of it is shown while loading.
RenderTable(data, isLoading) ==
    IF isLoading THEN <<>> ELSE [i \in 1..Len(data) |-> RenderRow(data[i])]

\* A chart that falls back to the first row while no row is selected.
ChartFetchSymbol_FirstRow(isLoading, sel, data) ==
    IF isLoading THEN NoSymbol
    ELSE IF sel # Null THEN sel.symbol
    ELSE IF data # <<>> THEN data[1].symbol
    ELSE NoSymbol

\* The symbol fetchChartData asks for: the chart section is rendered when the
\* view is not loading and a stock is selected, with symbol =
\* selectedStock.symbol, and fetchChartData returns at once on no symbol.
ChartFetchSymbol(isLoading, sel, data) ==
    IF ~isLoading /\ sel # Null THEN sel.symbol ELSE NoSymbol

\* The columns whose header is clicked, of the nine sortable ones.
SortKeys == {"symbol", "score"}

\* The value of a string after toLowerCase(), as its rank among the symbols.
LowerRank(str) == IF str = "INFY.NS" THEN 1 ELSE IF str = "TCS.NS" THEN 2 ELSE 3

\* The comparator of handleSort on the values aVal and bVal of column key:
\* null goes last, strings are compared in lower case, and a value that is
\* neither smaller nor greater (undefined as well) compares as equal.
SortCompare(key, direction, a, b) ==
    IF key = "symbol"
    THEN IF LowerRank(a.symbol) < LowerRank(b.symbol) THEN (IF direction = "asc" THEN -1 ELSE 1)
         ELSE IF LowerRank(a.symbol) > LowerRank(b.symbol) THEN (IF direction = "asc" THEN 1 ELSE -1)
         ELSE 0
    ELSE IF a.score = Null THEN 1
    ELSE IF b.score = Null THEN -1
    ELSE IF a.score = Undefined \/ b.score = Undefined THEN 0
    ELSE IF a.score.v < b.score.v THEN (IF direction = "asc" THEN -1 ELSE 1)
    ELSE IF a.score.v > b.score.v THEN (IF direction = "asc" THEN 1 ELSE -1)
    ELSE 0

RECURSIVE InsertByKey(_, _, _, _)
\* x moved towards the front past every element it compares smaller than.
InsertByKey(key, direction, s, x) ==
    IF s # <<>> /\ SortCompare(key, direction, x, s[Len(s)]) < 0
    THEN Append(InsertByKey(key, direction, Front(s), x), s[Len(s)])
    ELSE Append(s, x)

RECURSIVE SortByKey(_, _, _)
\* [...filteredData].sort(comparator): a stable insertion sort, as the engines
\* run on short arrays.
SortByKey(key, direction, s) ==
    IF s = <<>> THEN <<>>
    ELSE InsertByKey(key, direction, SortByKey(key, direction, Front(s)), s[Len(s)])

\* The direction handleSort chooses for a click on the header of key.
NextDirection(config, key) ==
    IF config.key = key /\ config.direction = "asc" THEN "desc" ELSE "asc"

\* getSortIndicator(key)
getSortIndicator(config, key) ==
    IF config.key # key THEN "both" ELSE IF config.direction = "asc" THEN "up" ELSE "down"

MaxTable == 2
MaxLoads == 2
MaxChartRequests == 3

TableSymbols == {"INFY.NS", "TCS.NS"}
TableScores == {Null, Undefined, Num(0), Num(75)}

\* analysis_data of a response: rows with distinct symbols.
AnalysisResponses ==
    {q \in UNION {[1..k -> [symbol : TableSymbols, score : TableScores]] : k \in 0..MaxTable} :
        \A i, j \in 1..Len(q) : q[i].symbol = q[j].symbol => i = j}

\* The state after the first render and its effect: loadAnalysisData is
\* running.
InitAnalysis ==
    /\ IdleBackend
    /\ IdleHeatmapView
    /\ IdleModal
    /\ IdleExtra
    /\ filteredData = <<>>
    /\ loading = TRUE
    /\ loads = 1
    /\ selectedStock = Null
    /\ sortConfig = NoSort
    /\ load_ok = FALSE
    /\ chart_symbol = NoSymbol
    /\ chart_inst = 0
    /\ chartData = Null
    /\ chart_loading = FALSE
    /\ chart_error = Null
    /\ chart_inflight = {}
    /\ chart_log = <<>>
    /\ pc = "analysis"

\* The render that follows a state change of Analysis, as far as the chart is
\* concerned: the chart is unmounted, mounted anew or given a new symbol, and
\* its effect on [symbol] calls fetchChartData.
RenderChart(isLoading, sel, data) ==
    LET sym == ChartFetchSymbol(isLoading, sel, data)
    IN  /\ chart_symbol' = sym
        /\ IF sym = NoSymbol
           THEN \* not rendered: the instance and its state are gone
                /\ chartData' = Null
                /\ chart_loading' = FALSE
                /\ chart_error' = Null
                /\ UNCHANGED <<chart_inst, chart_inflight, chart_log>>
           ELSE IF sym = chart_symbol
           THEN UNCHANGED <<chart_inst, chartData, chart_loading, chart_error,
                            chart_inflight, chart_log>>
           ELSE LET inst == IF chart_symbol = NoSymbol THEN chart_inst + 1 ELSE chart_inst
                IN  /\ chart_inst' = inst
                    /\ chartData' = IF chart_symbol = NoSymbol THEN Null ELSE chartData
                    /\ chart_loading' = TRUE
                    /\ chart_error' = Null
                    /\ chart_inflight' = chart_inflight \cup
                           {[id |-> Len(chart_log) + 1, inst |-> inst, symbol |-> sym]}
                    /\ chart_log' = Append(chart_log, sym)

\* A chart request may be issued by the next render.
ChartBudget == Len(chart_log) < MaxChartRequests

\* loadAnalysisData: the response arrives.
LoadResolve ==
    /\ pc = "analysis"
    /\ loading
    /\ ChartBudget
    /\ \E data \in AnalysisResponses :
        /\ filteredData' = SortByScore(data)
        /\ RenderChart(FALSE, selectedStock, SortByScore(data))
    /\ loading' = FALSE
    /\ load_ok' = TRUE
    /\ UNCHANGED <<loads, selectedStock, sortConfig, pc, bvars, hvars, mvars, xvars>>

\* loadAnalysisData: the request fails (catch, finally).
LoadReject ==
    /\ pc = "analysis"
    /\ loading
    /\ ChartBudget
    /\ loading' = FALSE
    /\ RenderChart(FALSE, selectedStock, filteredData)
    /\ load_ok' = FALSE
    /\ UNCHANGED <<filteredData, loads, selectedStock, sortConfig, pc, bvars, hvars, mvars, xvars>>

\* The Refresh Analysis button (disabled while loading).
RefreshAnalysis ==
    /\ pc = "analysis"
    /\ ~loading
    /\ loads < MaxLoads
    /\ loading' = TRUE
    /\ loads' = loads + 1
    /\ RenderChart(TRUE, selectedStock, filteredData)
    /\ UNCHANGED <<filteredData, selectedStock, sortConfig, load_ok, pc, bvars, hvars, mvars, xvars>>

\* A click on a table row: handleStockSelect.
SelectRow ==
    /\ pc = "analysis"
    /\ ~loading
    /\ ChartBudget
    /\ \E i \in 1..Len(filteredData) :
        /\ selectedStock' = filteredData[i]
        /\ RenderChart(loading, filteredData[i], filteredData)
    /\ UNCHANGED <<filteredData, loading, loads, sortConfig, load_ok, pc, bvars, hvars, mvars, xvars>>

\* The response to a chart request arrives; a response for an instance that is
\* no longer mounted changes nothing.
ChartResolve ==
    /\ pc = "analysis"
    /\ \E req \in chart_inflight :
        /\ chart_inflight' = chart_inflight \ {req}
        /\ IF chart_symbol # NoSymbol /\ req.inst = chart_inst
           THEN /\ chartData' = [symbol |-> req.symbol]
                /\ chart_loading' = FALSE
                /\ UNCHANGED chart_error
           ELSE UNCHANGED <<chartData, chart_loading, chart_error>>
    /\ UNCHANGED <<filteredData, loading, loads, selectedStock, sortConfig, load_ok,
                   chart_symbol, chart_inst, chart_log, pc, bvars, hvars, mvars, xvars>>

\* A chart request fails or is answered with a non-OK status.
ChartReject ==
    /\ pc = "analysis"
    /\ \E req \in chart_inflight :
        /\ chart_inflight' = chart_inflight \ {req}
        /\ IF chart_symbol # NoSymbol /\ req.inst = chart_inst
           THEN /\ chart_error' = [message |-> "Failed to fetch chart data"]
                /\ chart_loading' = FALSE
                /\ UNCHANGED chartData
           ELSE UNCHANGED <<chartData, chart_loading, chart_error>>
    /\ UNCHANGED <<filteredData, loading, loads, selectedStock, sortConfig, load_ok,
                   chart_symbol, chart_inst, chart_log, pc, bvars, hvars, mvars, xvars>>

\* A click on a column header (the table is rendered when not loading):
\* handleSort.  The chart keeps its symbol.
HandleSort ==
    /\ pc = "analysis"
    /\ ~loading
    /\ \E key \in SortKeys :
        LET direction == NextDirection(sortConfig, key)
        IN  /\ filteredData' = SortByKey(key, direction, filteredData)
            /\ sortConfig' = [key |-> key, direction |-> direction]
    /\ UNCHANGED <<loading, loads, selectedStock, load_ok, chart_symbol, chart_inst,
                   chartData, chart_loading, chart_error, chart_inflight, chart_log,
                   pc, bvars, hvars, mvars, xvars>>

NextAnalysis ==
    \/ HandleSort
    \/ LoadResolve
    \/ LoadReject
    \/ RefreshAnalysis
    \/ SelectRow
    \/ ChartResolve
    \/ ChartReject

SpecAnalysis == InitAnalysis /\ [][NextAnalysis]_vars

\* The score of a stock is absent.
ScoreAbsent(stock) == stock.score \in {Null, Undefined}

DisplayedRows == RenderTable(filteredData, loading)

\* C12: in the Analysis view a stock whose score is absent (null or
\* undefined) is not displayed with the value 0, and it is not ranked among
\* the scored stocks as if its score were 0 (it never stands before a stock
\* that has a score), so it stays distinguishable from a stock scored 0.
C12_AbsentScoreNotZero ==
    \A i \in 1..Len(DisplayedRows) :
        ScoreAbsent(filteredData[i]) =>
            /\ DisplayedRows[i].score_cell # 0
            /\ \A j \in (i + 1)..Len(DisplayedRows) : ScoreAbsent(filteredData[j])

\* A table showing a stock without score next to a stock scored 0.
C12_Reached ==
    /\ ~loading
    /\ \E i, j \in 1..Len(filteredData) :
        /\ filteredData[i].score = Null
        /\ filteredData[j].score = Num(0)
        /\ DisplayedRows[i].score_cell = DisplayedRows[j].score_cell

\* The rows that have a score stand in non-increasing order of it.
ScoreOrdered(rows) ==
    \A i, j \in 1..Len(rows) :
        (i < j /\ rows[i].score.js = "number" /\ rows[j].score.js = "number")
            => rows[i].score.v >= rows[j].score.v

\* C21: every loadAnalysisData that ends with its response (the initial load
\* or a Refresh Analysis, whatever header sort was applied before) leaves the
\* displayed rows in non-increasing order of the backend score.
C21_LoadSortsByScore ==
    [][(loading /\ ~loading' /\ load_ok') => ScoreOrdered(filteredData')]_vars

\* Refresh Analysis after an ascending sort on the score column: the rows are
\* back in descending order of the score.
C21_Witness ==
    /\ ~loading
    /\ load_ok
    /\ loads = 2
    /\ sortConfig = [key |-> "score", direction |-> "asc"]
    /\ Len(filteredData) = 2
    /\ filteredData[1].score = Num(75)
    /\ filteredData[2].score = Num(0)

\* The column of the sort indicator orders the displayed rows: no row stands
\* before a row that the comparator of that column and direction puts first.
OrderedByConfig(config, rows) ==
    \A i, j \in 1..Len(rows) :
        i < j => SortCompare(config.key, config.direction, rows[j], rows[i]) >= 0

\* C30: whenever a sort key is set, the displayed rows are ordered by that
\* key in the direction of sortConfig, after any sequence of header clicks
\* and Refresh Analysis.
C30_IndicatorMatchesOrder ==
    (~loading /\ sortConfig.key # NoSort.key) => OrderedByConfig(sortConfig, filteredData)

\* C26: whenever the chart is not loading and displays chart data, the data
\* is the response to the request for the symbol currently selected, also
\* when the symbol changed while a request was in flight and the responses
\* arrive in any order.
C26_ChartDataOfSelectedSymbol ==
    (/\ chart_symbol # NoSymbol
     /\ ~chart_loading
     /\ chart_error = Null
     /\ chartData # Null)
        => chartData.symbol = chart_symbol

\* C20: charts load only when clicked: no chart-data request is issued (or
\* in flight) while no stock is selected, and every request issued is for the
\* symbol of the selected stock, which is a table row that was clicked.
C20_ChartsLoadWhenClicked ==
    /\ [](selectedStock = Null => (chart_log = <<>> /\ chart_inflight = {}))
    /\ [][chart_log' # chart_log =>
            /\ selectedStock' # Null
            /\ chart_log' = Append(chart_log, selectedStock'.symbol)
            /\ \/ selectedStock' = selectedStock
               \/ \E i \in 1..Len(filteredData) : selectedStock' = filteredData[i]]_vars

\* Two rows were clicked one after the other and a chart request went out for
\* each.
C20_Witness ==
    /\ Len(chart_log) = 2
    /\ chart_log[1] # chart_log[2]
    /\ selectedStock # Null
    /\ selectedStock.symbol = chart_log[2]

----------------------------------------------------------------------------
(* frontend/src/components/SectorHeatmap.js                                 *)

\* The values of the seven duration buttons.
DURATIONS == {"1d", "1w", "1m", "3m", "6m", "1y", "ytd"}

\* The duration buttons the user clicks.
ClickedDurations == {"1d", "ytd"}

\* The filter state of one render, which the fetchHeatmapData of that render
\* reads.
Filter(d, c, s, e) == [duration |-> d, customMode |-> c, startDate |-> s, endDate |-> e]

CurrentFilter == Filter(duration, customMode, startDate, endDate)

\* Query parameters that send the dates whenever the custom mode is on.
FetchParams_DatesUnchecked(f) ==
    IF f.customMode
    THEN [start_date |-> f.startDate, end_date |-> f.endDate]
    ELSE [duration |-> f.duration]

\* The URLSearchParams of fetchHeatmapData() as a function from the parameter
\* names appended to their values (filterParams is always {}).
FetchParams(f) ==
    IF f.customMode /\ f.startDate # "" /\ f.endDate # ""
    THEN [start_date |-> f.startDate, end_date |-> f.endDate]
    ELSE [duration |-> f.duration]

\* The effect on [duration, customMode, startDate, endDate]: it runs again,
\* with the new render's fetchHeatmapData, when one of them changed.
EffectRuns(old, new) == IF old # new THEN <<new>> ELSE <<>>

\* Requests awaiting their response and 5-second timeouts pending at one time.
MaxPending == 2

StartDates == {"", "2024-01-01"}
EndDates == {"", "2024-03-31"}

\* The sectors of a response, with the symbols of their ranked stocks.
HeatmapSectors ==
    <<[sector |-> "Energy", stocks |-> <<"ONGC", "RELIANCE", "BPCL", "IOC">>],
      [sector |-> "IT", stocks |-> <<"TCS">>]>>

\* The state after the first render and its effect: the first request is out
\* and the 5-minute timer is set.
InitHeatmapView ==
    /\ IdleBackend
    /\ IdleAnalysis
    /\ IdleModal
    /\ IdleExtra
    /\ duration = "1d"
    /\ customMode = FALSE
    /\ startDate = ""
    /\ endDate = ""
    /\ heatmap_loading = TRUE
    /\ heatmap_error = Null
    /\ heatmapData = NoData
    /\ applied = FALSE
    /\ expandedSector = NoSector
    /\ isRefreshing = FALSE
    /\ interval = Filter("1d", FALSE, "", "")
    /\ refresh_inflight = {}
    /\ refresh_timeouts = {}
    /\ heatmap_inflight = <<FetchParams(Filter("1d", FALSE, "", ""))>>
    /\ pc = "heatmap"

RemoveAt(q, k) == [i \in 1..(Len(q) - 1) |-> IF i < k THEN q[i] ELSE q[i + 1]]

Pending ==
    Len(heatmap_inflight) + Cardinality(refresh_inflight) + Cardinality(refresh_timeouts)

\* fetchHeatmapData() called once for each filter state of fs, in order, up to
\* the fetch: setLoading(true), setError(null), the request.
Fetch(fs) ==
    /\ Pending + Len(fs) <= MaxPending
    /\ heatmap_inflight' = heatmap_inflight \o [i \in 1..Len(fs) |-> FetchParams(fs[i])]

\* The filter controls are rendered unless the error message replaces the view.
ControlsShown == heatmap_error = Null

\* A duration button: handleDurationChange, then the effect.
ClickDuration ==
    /\ pc = "heatmap"
    /\ ControlsShown
    /\ \E d \in ClickedDurations :
        LET new == Filter(d, FALSE, startDate, endDate)
            fs == EffectRuns(CurrentFilter, new)
        IN  /\ duration' = d
            /\ customMode' = FALSE
            /\ Fetch(fs)
            /\ heatmap_loading' = IF fs # <<>> THEN TRUE ELSE heatmap_loading
            /\ interval' = IF fs # <<>> THEN new ELSE interval
    /\ expandedSector' = NoSector
    /\ applied' = FALSE
    /\ UNCHANGED <<startDate, endDate, heatmap_error, heatmapData, isRefreshing,
                   refresh_inflight, refresh_timeouts, pc, bvars, avars, mvars, xvars>>

\* An edit of the first date input, then the effect.
EditStartDate ==
    /\ pc = "heatmap"
    /\ ControlsShown
    /\ \E v \in StartDates :
        LET new == Filter(duration, customMode, v, endDate)
            fs == EffectRuns(CurrentFilter, new)
        IN  /\ startDate' = v
            /\ Fetch(fs)
            /\ heatmap_loading' = IF fs # <<>> THEN TRUE ELSE heatmap_loading
            /\ interval' = IF fs # <<>> THEN new ELSE interval
    /\ applied' = FALSE
    /\ UNCHANGED <<duration, customMode, endDate, heatmap_error, heatmapData,
                   expandedSector, isRefreshing, refresh_inflight, refresh_timeouts,
                   pc, bvars, avars, mvars, xvars>>

\* An edit of the second date input, then the effect.
EditEndDate ==
    /\ pc = "heatmap"
    /\ ControlsShown
    /\ \E v \in EndDates :
        LET new == Filter(duration, customMode, startDate, v)
            fs == EffectRuns(CurrentFilter, new)
        IN  /\ endDate' = v
            /\ Fetch(fs)
            /\ heatmap_loading' = IF fs # <<>> THEN TRUE ELSE heatmap_loading
            /\ interval' = IF fs # <<>> THEN new ELSE interval
    /\ applied' = FALSE
    /\ UNCHANGED <<duration, customMode, startDate, heatmap_error, heatmapData,
                   expandedSector, isRefreshing, refresh_inflight, refresh_timeouts,
                   pc, bvars, avars, mvars, xvars>>

\* The Apply button (disabled unless both dates are set): handleCustomDateApply
\* sets customMode and calls the fetchHeatmapData of the current render; the
\* effect follows when customMode changed.
ApplyCustomDates ==
    /\ pc = "heatmap"
    /\ ControlsShown
    /\ startDate # "" /\ endDate # ""
    /\ LET new == Filter(duration, TRUE, startDate, endDate)
           fs == <<CurrentFilter>> \o EffectRuns(CurrentFilter, new)
       IN  /\ customMode' = TRUE
           /\ Fetch(fs)
           /\ interval' = IF CurrentFilter # new THEN new ELSE interval
    /\ heatmap_loading' = TRUE
    /\ expandedSector' = NoSector
    /\ applied' = TRUE
    /\ UNCHANGED <<duration, startDate, endDate, heatmap_error, heatmapData,
                   isRefreshing, refresh_inflight, refresh_timeouts, pc, bvars, avars, mvars, xvars>>

\* The Refresh button: handleRefresh up to the POST of triggerRefresh.
ClickRefresh ==
    /\ pc = "heatmap"
    /\ ControlsShown
    /\ Pending < MaxPending
    /\ CurrentFilter \notin refresh_inflight \cup refresh_timeouts
    /\ isRefreshing' = TRUE
    /\ refresh_inflight' = refresh_inflight \cup {CurrentFilter}
    /\ expandedSector' = NoSector
    /\ applied' = FALSE
    /\ UNCHANGED <<duration, customMode, startDate, endDate, heatmap_loading,
                   heatmap_error, heatmapData, interval, refresh_timeouts,
                   heatmap_inflight, pc, bvars, avars, mvars, xvars>>

\* triggerRefresh answered: the 5-second timeout is set.
RefreshStarted ==
    /\ pc = "heatmap"
    /\ \E f \in refresh_inflight :
        /\ refresh_inflight' = refresh_inflight \ {f}
        /\ refresh_timeouts' = refresh_timeouts \cup {f}
    /\ UNCHANGED <<applied, duration, customMode, startDate, endDate, heatmap_loading,
                   heatmap_error, heatmapData, expandedSector, isRefreshing, interval,
                   heatmap_inflight, pc, bvars, avars, mvars, xvars>>

\* triggerRefresh failed.
RefreshFailed ==
    /\ pc = "heatmap"
    /\ \E f \in refresh_inflight : refresh_inflight' = refresh_inflight \ {f}
    /\ heatmap_error' = [message |-> "Failed to trigger refresh"]
    /\ isRefreshing' = FALSE
    /\ UNCHANGED <<applied, duration, customMode, startDate, endDate, heatmap_loading,
                   heatmapData, expandedSector, interval, refresh_timeouts,
                   heatmap_inflight, pc, bvars, avars, mvars, xvars>>

\* The 5-second timeout of handleRefresh fires: the fetchHeatmapData of the
\* render in which Refresh was clicked.
RefreshTimeout ==
    /\ pc = "heatmap"
    /\ \E f \in refresh_timeouts :
        /\ refresh_timeouts' = refresh_timeouts \ {f}
        /\ heatmap_inflight' = Append(heatmap_inflight, FetchParams(f))
    /\ heatmap_loading' = TRUE
    /\ heatmap_error' = Null
    /\ isRefreshing' = FALSE
    /\ applied' = FALSE
    /\ UNCHANGED <<duration, customMode, startDate, endDate, heatmapData,
                   expandedSector, interval, refresh_inflight, pc, bvars, avars, mvars, xvars>>

\* The 5-minute timer fires: the fetchHeatmapData of the render of the effect.
IntervalTick ==
    /\ pc = "heatmap"
    /\ Fetch(<<interval>>)
    /\ heatmap_loading' = TRUE
    /\ heatmap_error' = Null
    /\ UNCHANGED <<applied, duration, customMode, startDate, endDate, heatmapData,
                   expandedSector, isRefreshing, interval, refresh_inflight,
                   refresh_timeouts, pc, bvars, avars, mvars, xvars>>

\* A sector-heatmap response arrives.
HeatmapResolve ==
    /\ pc = "heatmap"
    /\ \E k \in 1..Len(heatmap_inflight) :
        /\ heatmap_inflight' = RemoveAt(heatmap_inflight, k)
        /\ heatmapData' = [params |-> heatmap_inflight[k], sectors |-> HeatmapSectors]
    /\ heatmap_loading' = FALSE
    /\ UNCHANGED <<applied, duration, customMode, startDate, endDate, heatmap_error,
                   expandedSector, isRefreshing, interval, refresh_inflight,
                   refresh_timeouts, pc, bvars, avars, mvars, xvars>>

\* A sector-heatmap request fails or is answered with a non-OK status.
HeatmapReject ==
    /\ pc = "heatmap"
    /\ \E k \in 1..Len(heatmap_inflight) : heatmap_inflight' = RemoveAt(heatmap_inflight, k)
    /\ heatmap_error' = [message |-> "Failed to fetch heatmap data"]
    /\ heatmap_loading' = FALSE
    /\ UNCHANGED <<applied, duration, customMode, startDate, endDate, heatmapData,
                   expandedSector, isRefreshing, interval, refresh_inflight,
                   refresh_timeouts, pc, bvars, avars, mvars, xvars>>

\* The movers every sector cell lists, expanded or not.
stocksToShow_All(expanded, ranked) == ranked

\* stocksToShow of one sector cell: sector.stocks when the cell is expanded,
\* sector.stocks.slice(0, 3) otherwise.
stocksToShow(expanded, ranked) ==
    IF expanded THEN ranked ELSE SubSeq(ranked, 1, IF Len(ranked) < 3 THEN Len(ranked) ELSE 3)

\* isExpanded of the k-th sector cell.
isExpanded(k) == expandedSector = heatmapData.sectors[k].sector

\* The grid of sector cells is rendered.
GridShown == ControlsShown /\ ~heatmap_loading

\* A click on the k-th sector cell (the click does not reach the container).
ClickSectorAt(k) ==
    /\ pc = "heatmap"
    /\ GridShown
    /\ k \in 1..Len(heatmapData.sectors)
    /\ expandedSector' = IF isExpanded(k) THEN NoSector ELSE heatmapData.sectors[k].sector
    /\ UNCHANGED <<applied, duration, customMode, startDate, endDate, heatmap_loading,
                   heatmap_error, heatmapData, isRefreshing, interval, refresh_inflight,
                   refresh_timeouts, heatmap_inflight, pc, bvars, avars, mvars, xvars>>

\* A click on a sector cell.
ClickSector == \E k \in 1..Len(HeatmapSectors) : ClickSectorAt(k)

\* A click in the container outside the cells and the header.
ClickOutside ==
    /\ pc = "heatmap"
    /\ ControlsShown
    /\ expandedSector' = NoSector
    /\ UNCHANGED <<applied, duration, customMode, startDate, endDate, heatmap_loading,
                   heatmap_error, heatmapData, isRefreshing, interval, refresh_inflight,
                   refresh_timeouts, heatmap_inflight, pc, bvars, avars, mvars, xvars>>

NextHeatmapView ==
    \/ ClickDuration
    \/ EditStartDate
    \/ EditEndDate
    \/ ApplyCustomDates
    \/ ClickRefresh
    \/ RefreshStarted
    \/ RefreshFailed
    \/ RefreshTimeout
    \/ IntervalTick
    \/ HeatmapResolve
    \/ HeatmapReject
    \/ ClickSector
    \/ ClickOutside

SpecHeatmapView == InitHeatmapView /\ [][NextHeatmapView]_vars

\* C17: every sector-heatmap request issued by the view, after any sequence
\* of duration clicks, date edits, Apply and Refresh, carries either exactly
\* one duration parameter taken from {1d, 1w, 1m, 3m, 6m, 1y, ytd} or both a
\* non-empty start_date and a non-empty end_date, never both kinds and never
\* neither.  (A request is in flight from the step that issues it.)
C17_DurationOrDates ==
    \A k \in 1..Len(heatmap_inflight) :
        LET params == heatmap_inflight[k]
        IN  \/ /\ DOMAIN params = {"duration"}
                /\ params.duration \in DURATIONS
            \/ /\ DOMAIN params = {"start_date", "end_date"}
                /\ params.start_date # ""
                /\ params.end_date # ""

\* The custom range was applied and the first date then cleared: the request
\* of the effect falls back to the duration although customMode is set, while
\* the request with the dates is still awaiting its response.
C17_Witness ==
    /\ customMode
    /\ startDate = ""
    /\ endDate # ""
    /\ Len(heatmap_inflight) = 2
    /\ DOMAIN heatmap_inflight[1] = {"start_date", "end_date"}
    /\ DOMAIN heatmap_inflight[2] = {"duration"}

\* The cells of the rendered grid: at most one of them is expanded, and a cell
\* that is not expanded lists the first three stocks of its sector (all of
\* them when there are fewer), in the order of the response.
GridCells ==
    GridShown =>
        /\ Cardinality({k \in 1..Len(heatmapData.sectors) : isExpanded(k)}) <= 1
        /\ \A k \in 1..Len(heatmapData.sectors) :
            LET ranked == heatmapData.sectors[k].stocks
                shown == stocksToShow(isExpanded(k), ranked)
            IN  ~isExpanded(k) =>
                    /\ Len(shown) = (IF Len(ranked) < 3 THEN Len(ranked) ELSE 3)
                    /\ \A i \in 1..Len(shown) : shown[i] = ranked[i]

C27_AppliedDatesDisplayed ==
    (/\ applied
     /\ heatmap_inflight = <<>>
     /\ GridShown
     /\ heatmapData # NoData)
        => heatmapData.params = [start_date |-> startDate, end_date |-> endDate]

----------------------------------------------------------------------------
(* Per-instrument pipelines run side by side: GET /api/weinstein/scores    *)
(* (resample_to_weekly, compute_indicators, apply_filters) and             *)
(* GET /api/analysis/data (indicators, score), one task per symbol, over   *)
(* the same bars.                                                          *)

MACD_FAST == 12
MACD_SLOW == 26
MACD_SIGNAL == 9

RECURSIVE EwmNum(_, _, _)
\* Numerator of ewm(span=span).mean() at index t: the values weighted by
\* (1 - a)^i with 1 - a = (span - 1) / (span + 1).
EwmNum(ys, span, t) ==
    IF t = 1 THEN ys[1]
    ELSE Norm(AddF(ys[t], MulF(<<span - 1, span + 1>>, EwmNum(ys, span, t - 1))))

RECURSIVE EwmDen(_, _)
\* Denominator of ewm(span=span).mean() at index t: the sum of the weights.
EwmDen(span, t) ==
    IF t = 1 THEN F(1)
    ELSE Norm(AddF(F(1), MulF(<<span - 1, span + 1>>, EwmDen(span, t - 1))))

\* ys.ewm(span=span).mean() at index t (adjust=True).
EwmAdjusted(ys, span, t) == Norm(DivF(EwmNum(ys, span, t), EwmDen(span, t)))

\* calculate_macd(prices): macd line and signal line.
calculate_macd(xs) ==
    LET ys == [t \in 1..Len(xs) |-> F(xs[t])]
        macd_line == [t \in 1..Len(xs) |->
                        Norm(SubF(EwmAdjusted(ys, MACD_FAST, t), EwmAdjusted(ys, MACD_SLOW, t)))]
    IN  [macd |-> macd_line,
         signal |-> [t \in 1..Len(xs) |-> EwmAdjusted(macd_line, MACD_SIGNAL, t)]]

\* The latest indicator values of a stock with the closes xs.
latest_indicators(xs) ==
    LET n == Len(xs)
        m == calculate_macd(xs)
    IN  [rsi |-> calculate_rsi(xs, RSI_PERIOD)[n],
         macd |-> m.macd[n],
         macd_signal |-> m.signal[n],
         ema_21 |-> calculate_ema(xs, 21)[n],
         ema_44 |-> calculate_ema(xs, 44)[n],
         ema_200 |-> calculate_ema(xs, 200)[n],
         close |-> F(xs[n])]

PoolSymbols == {"INFY.NS", "TCS.NS"}
PoolTasks == PoolSymbols \X {"weinstein", "analysis"}

\* Daily bars of n weeks: one bar on each Friday closing at cb, and in the
\* last week a Thursday bar with the high hl and a Friday bar closing at cl.
PoolDaily(n, cb, cl, hl) ==
    [t \in 1..(n + 1) |->
        IF t < n THEN FlatBar(WeekTs(t), cb)
        ELSE IF t = n THEN Bar(WeekTs(n) - 1, cb, hl, cb, cb, 1)
        ELSE FlatBar(WeekTs(n), cl)]

\* The benchmark on MaxRsWeeks weeks: flat, or doubling in the last two weeks.
PoolBenchmarks(cb) ==
    {[t \in 1..MaxRsWeeks |-> FlatBar(WeekTs(t), cb)],
     [t \in 1..MaxRsWeeks |-> FlatBar(WeekTs(t), IF t >= MaxRsWeeks - 1 THEN 2 * cb ELSE cb)]}

PoolCloses == [PoolSymbols -> {<<10, 12>>, <<12, 10>>}]

NoLatest == [close |-> NaN]
NoConfidence == [total |-> NaN]

NewTask(tk) ==
    IF tk[2] = "weinstein"
    THEN [pc |-> "new", df |-> <<>>, out |-> NoResult]
    ELSE [pc |-> "new", df |-> NoLatest, out |-> NoConfidence]

\* The frame and the output of the pipeline of task tk run alone on the
\* snapshot snap.
AloneFrame(snap, tk) ==
    IF tk[2] = "weinstein"
    THEN compute_indicators(resample_to_weekly(snap.daily[tk[1]]), snap.index)
    ELSE latest_indicators(snap.closes[tk[1]])

AloneOutput(frm, tk) ==
    IF tk[2] = "weinstein" THEN apply_filters(frm) ELSE analysis_score(frm)

InitPool ==
    /\ IdleWeinstein
    /\ IdleIndicators
    /\ IdleConfidence
    /\ IdleHeatmap
    /\ IdleDownload
    /\ IdleFrontend
    /\ \E cl \in {90, 110}, b \in PoolBenchmarks(100), xs \in PoolCloses :
        snapshot = [daily |-> [s \in PoolSymbols |->
                                 IF s = "INFY.NS" THEN PoolDaily(MaxRsWeeks - 1, 100, cl, 112)
                                 ELSE PoolDaily(MaxRsWeeks, 100, 110, 130)],
                    index |-> b,
                    closes |-> xs]
    /\ tasks = [tk \in PoolTasks |-> NewTask(tk)]
    /\ alone = [tk \in PoolTasks |->
                  LET frm == AloneFrame(snapshot, tk)
                  IN  [df |-> frm, out |-> AloneOutput(frm, tk)]]
    /\ pc = "pool"

\* A frame that the running pipelines keep in one place: a task picks up the
\* frame of another task at the same position.
OwnFrame_Shared(ts, tk) ==
    IF \E o \in DOMAIN ts : o # tk /\ o[2] = tk[2] /\ ts[o].pc = ts[tk].pc
    THEN ts[CHOOSE o \in DOMAIN ts : o # tk /\ o[2] = tk[2] /\ ts[o].pc = ts[tk].pc].df
    ELSE ts[tk].df

\* The frame a step works on is the local df of its own request.
OwnFrame(ts, tk) == ts[tk].df

PoolResample ==
    /\ pc = "pool"
    /\ \E tk \in PoolTasks :
        /\ tk[2] = "weinstein"
        /\ tasks[tk].pc = "new"
        /\ tasks' = [tasks EXCEPT ![tk] =
                        [pc |-> "resampled",
                         df |-> resample_to_weekly(snapshot.daily[tk[1]]),
                         out |-> @.out]]
    /\ UNCHANGED <<snapshot, alone, pc, wvars, ivars, cvars, svars, dvars, fvars>>

PoolComputeIndicators ==
    /\ pc = "pool"
    /\ \E tk \in PoolTasks :
        /\ tk[2] = "weinstein"
        /\ tasks[tk].pc = "resampled"
        /\ tasks' = [tasks EXCEPT ![tk] =
                        [pc |-> "indicators",
                         df |-> compute_indicators(OwnFrame(tasks, tk), snapshot.index),
                         out |-> @.out]]
    /\ UNCHANGED <<snapshot, alone, pc, wvars, ivars, cvars, svars, dvars, fvars>>

PoolApplyFilters ==
    /\ pc = "pool"
    /\ \E tk \in PoolTasks :
        /\ tk[2] = "weinstein"
        /\ tasks[tk].pc = "indicators"
        /\ tasks' = [tasks EXCEPT ![tk] =
                        [pc |-> "scored", df |-> @.df,
                         out |-> apply_filters(OwnFrame(tasks, tk))]]
    /\ UNCHANGED <<snapshot, alone, pc, wvars, ivars, cvars, svars, dvars, fvars>>

PoolCalculateIndicators ==
    /\ pc = "pool"
    /\ \E tk \in PoolTasks :
        /\ tk[2] = "analysis"
        /\ tasks[tk].pc = "new"
        /\ tasks' = [tasks EXCEPT ![tk] =
                        [pc |-> "indicators",
                         df |-> latest_indicators(snapshot.closes[tk[1]]),
                         out |-> @.out]]
    /\ UNCHANGED <<snapshot, alone, pc, wvars, ivars, cvars, svars, dvars, fvars>>

PoolComputeScore ==
    /\ pc = "pool"
    /\ \E tk \in PoolTasks :
        /\ tk[2] = "analysis"
        /\ tasks[tk].pc = "indicators"
        /\ tasks' = [tasks EXCEPT ![tk] =
                        [pc |-> "scored", df |-> @.df,
                         out |-> analysis_score(OwnFrame(tasks, tk))]]
    /\ UNCHANGED <<snapshot, alone, pc, wvars, ivars, cvars, svars, dvars, fvars>>

NextPool ==
    \/ PoolResample
    \/ PoolComputeIndicators
    \/ PoolApplyFilters
    \/ PoolCalculateIndicators
    \/ PoolComputeScore

SpecPool == InitPool /\ [][NextPool]_vars

ResultsAsAlone ==
    \A tk \in PoolTasks :
        /\ tasks[tk].pc \in {"indicators", "scored"} => tasks[tk].df = alone[tk].df
        /\ tasks[tk].pc = "scored" => tasks[tk].out = alone[tk].out

----------------------------------------------------------------------------
(* frontend/src/components/DataDownload.js, with the download job it starts *)

\* data[key] || 0 for a numeric field of a progress event.
NumberOrZero(data, key) ==
    IF key \in DOMAIN data /\ data[key] # 0 THEN data[key] ELSE 0

\* data.symbol || ''
SymbolOrEmpty(data) == IF "symbol" \in DOMAIN data THEN data.symbol ELSE ""

\* data.message || '': the final event carries '<success>/<total> stocks processed'.
MessageOrEmpty(data) ==
    IF "message" \in DOMAIN data
    THEN [text |-> "stocks processed", counts |-> data.message]
    ELSE NoMessage

\* What the Kite API gives for a symbol of the download behind the modal.
ModalKiteAnswers ==
    {[ok |-> FALSE, rows |-> <<>>],
     [ok |-> TRUE, rows |-> <<Row(2, 12, 14, 11, 13, 5)>>]}

\* The page is loaded, the modal is closed and no download job has started.
InitDataDownload ==
    /\ IdleWeinstein
    /\ IdleIndicators
    /\ IdleConfidence
    /\ IdleHeatmap
    /\ IdlePool
    /\ csv \in SeqsUpTo(SymbolNames, MaxCsv)
    /\ kite \in [SymbolNames -> ModalKiteAnswers]
    /\ kite_calls = <<>>
    /\ db = {StaleRow}
    /\ symbols = <<>>
    /\ idx = 0
    /\ success_count = 0
    /\ emitted = <<>>
    /\ target = ""
    /\ IdleAnalysis
    /\ IdleHeatmapView
    /\ IdleModal
    /\ IdleExtra
    /\ pc = "waiting"

\* handleOpenModal, then the effect on [showModal]: the socket connects and
\* gets the events emitted from now on.
OpenModal ==
    /\ ~showModal
    /\ showModal' = TRUE
    /\ socket_next' = Len(emitted) + 1
    /\ socket_handled' = 0
    /\ UNCHANGED <<downloading, dl_progress, dl_message, recordsInserted, currentSymbol,
                   post_inflight, pc, bvars, avars, hvars, xvars>>

\* Close controls that work during a download as well.
CloseModal_WhileDownloading ==
    /\ showModal
    /\ showModal' = FALSE
    /\ socket_next' = 0
    /\ socket_handled' = 0
    /\ UNCHANGED <<downloading, dl_progress, dl_message, recordsInserted, currentSymbol,
                   post_inflight, pc, bvars, avars, hvars, xvars>>

\* The close buttons and the overlay, which do nothing while downloading; the
\* cleanup of the effect disconnects the socket.
CloseModal ==
    /\ showModal
    /\ ~downloading
    /\ showModal' = FALSE
    /\ socket_next' = 0
    /\ socket_handled' = 0
    /\ UNCHANGED <<downloading, dl_progress, dl_message, recordsInserted, currentSymbol,
                   post_inflight, pc, bvars, avars, hvars, xvars>>

\* The Start Download button (rendered unless downloading): handleStartDownload
\* up to the fetch.  One download job is followed.
ClickStartDownload ==
    /\ showModal
    /\ ~downloading
    /\ pc = "waiting"
    /\ post_inflight = "none"
    /\ downloading' = TRUE
    /\ dl_message' = [text |-> "Starting data download from Yahoo Finance..."]
    /\ dl_progress' = NoProgress
    /\ recordsInserted' = 0
    /\ post_inflight' = "sent"
    /\ UNCHANGED <<showModal, currentSymbol, socket_next, socket_handled, pc,
                   bvars, avars, hvars, xvars>>

\* The backend takes the POST and starts the download job.
RefreshRoute ==
    /\ post_inflight = "sent"
    /\ pc = "waiting"
    /\ post_inflight' = "ok"
    /\ pc' = "idle"
    /\ UNCHANGED <<showModal, downloading, dl_progress, dl_message, recordsInserted,
                   currentSymbol, socket_next, socket_handled, bvars, avars, hvars, xvars>>

\* The POST fails or is answered with an error status; no job starts.
RefreshRouteFails ==
    /\ post_inflight = "sent"
    /\ post_inflight' = "error"
    /\ UNCHANGED <<showModal, downloading, dl_progress, dl_message, recordsInserted,
                   currentSymbol, socket_next, socket_handled, pc, bvars, avars, hvars, xvars>>

\* handleStartDownload after the await, response.ok.
PostOk ==
    /\ post_inflight = "ok"
    /\ post_inflight' = "none"
    /\ dl_message' = [text |-> "Data download started. Progress will update automatically..."]
    /\ UNCHANGED <<showModal, downloading, dl_progress, recordsInserted, currentSymbol,
                   socket_next, socket_handled, pc, bvars, avars, hvars, xvars>>

\* handleStartDownload, catch.
PostFail ==
    /\ post_inflight = "error"
    /\ post_inflight' = "none"
    /\ dl_message' = [text |-> "Error: Failed to start data download"]
    /\ downloading' = FALSE
    /\ UNCHANGED <<showModal, dl_progress, recordsInserted, currentSymbol,
                   socket_next, socket_handled, pc, bvars, avars, hvars, xvars>>

\* A handler that ends the download on every event.
DownloadingAfter_AnyStatus(data, flag) == FALSE

\* if (data.status === 'completed') setDownloading(false)
DownloadingAfter(data, flag) == IF data.status = "completed" THEN FALSE ELSE flag

\* The refresh_progress handler of the socket, on the next event.
OnRefreshProgress ==
    /\ showModal
    /\ socket_next <= Len(emitted)
    /\ LET data == emitted[socket_next]
       IN  /\ dl_progress' = [current |-> NumberOrZero(data, "current"),
                              total |-> NumberOrZero(data, "total"),
                              percentage |-> NumberOrZero(data, "progress")]
           /\ dl_message' = MessageOrEmpty(data)
           /\ currentSymbol' = SymbolOrEmpty(data)
           /\ recordsInserted' = NumberOrZero(data, "records_added")
           /\ downloading' = DownloadingAfter(data, downloading)
    /\ socket_next' = socket_next + 1
    /\ socket_handled' = socket_handled + 1
    /\ UNCHANGED <<showModal, post_inflight, pc, bvars, avars, hvars, xvars>>

\* {progress.percentage === 100 && !downloading && (... Download Complete! ...)}
CompletionMessageShown ==
    showModal /\ dl_progress.percentage = 100 /\ ~downloading

NextDataDownload ==
    \/ OpenModal
    \/ CloseModal
    \/ ClickStartDownload
    \/ RefreshRoute
    \/ RefreshRouteFails
    \/ PostOk
    \/ PostFail
    \/ StartDownload
    \/ DownloadSymbol
    \/ FinishDownload
    \/ OnRefreshProgress

SpecDataDownload == InitDataDownload /\ [][NextDataDownload]_vars

\* C19: when the last event handled by the open modal is the 'completed'
\* event of a download (the modal cannot be closed while the download is
\* shown as running, so the event arrived during it), the modal shows
\* 'Download Complete!'.
C19_CompletionShown ==
    (/\ showModal
     /\ socket_handled > 0
     /\ emitted[socket_next - 1].status = "completed")
        => CompletionMessageShown

\* The socket delivers the events it is sent, the handler of the POST's
\* outcome runs, and the backend and its download job keep going.
SpecDataDownloadFair ==
    /\ SpecDataDownload
    /\ WF_vars(OnRefreshProgress)
    /\ WF_vars(PostOk)
    /\ WF_vars(PostFail)
    /\ WF_vars(StartDownload)
    /\ WF_vars(DownloadSymbol)
    /\ WF_vars(FinishDownload)

\* The socket of the open modal is connected.
SocketConnected == socket_next > 0

\* C23: the modal cannot be closed while a download is in progress: in every
\* reachable state downloading implies showModal, so the progress socket
\* stays connected for the whole download.
C23_OpenWhileDownloading == downloading => (showModal /\ SocketConnected)

\* The download job is half-way while the modal shows it as running.
C23_Witness ==
    /\ downloading
    /\ showModal
    /\ pc = "downloading"
    /\ idx = 1
    /\ Len(symbols) = 2

CompletedEmitted == \E k \in 1..Len(emitted) : emitted[k].status = "completed"

\* C24: once Start Download was clicked, downloading is cleared only by the
\* failed start request or by a refresh_progress event with status
\* 'completed' (an event with another status never clears it); and when the
\* backend emits the completed event, downloading eventually becomes false
\* with the modal closable again.
C24_ClearedByFailureOrCompleted ==
    /\ [][(downloading /\ ~downloading') =>
            \/ post_inflight = "error" /\ post_inflight' = "none"
            \/ /\ socket_next' = socket_next + 1
               /\ emitted[socket_next].status = "completed"]_vars
    /\ (downloading /\ CompletedEmitted) ~> (showModal /\ ~downloading)

\* The completed event of the download was handled after a progress event:
\* the modal is open and the download no longer shown as running.
C24_Witness ==
    /\ showModal
    /\ ~downloading
    /\ socket_handled = 2
    /\ emitted[socket_next - 1].status = "completed"
    /\ emitted[socket_next - 2].status = "processing"

----------------------------------------------------------------------------
(* frontend/src/components/KiteConnectionManager.js                         *)

\* What GET /api/kite/status gives: connected or not, or no answer at all.
StatusAnswers ==
    {[ok |-> TRUE, connected |-> TRUE], [ok |-> TRUE, connected |-> FALSE], [ok |-> FALSE]}

\* connectionStatus as checkConnection sets it on an answer.
CheckResult(answer) ==
    IF answer.ok
    THEN [connected |-> answer.connected, checking |-> FALSE, error |-> Null]
    ELSE [connected |-> FALSE, checking |-> FALSE, error |-> [message |-> "Failed to fetch"]]

\* The component is mounted: the effect has called checkConnection and set
\* the 30-second timer.
InitKite ==
    /\ IdleBackend
    /\ IdleAnalysis
    /\ IdleHeatmapView
    /\ IdleModal
    /\ IdleInitProgress
    /\ IdleShortlist
    /\ connectionStatus = NoStatus
    /\ kite_showModal = FALSE
    /\ currentStep = 1
    /\ check_inflight = 1
    /\ verify_inflight = <<>>
    /\ login_inflight = <<>>
    /\ pc = "kite"

KitePending == check_inflight + Len(verify_inflight) + Len(login_inflight)

\* The 30-second timer fires: checkConnection up to the fetch.
StatusTimerTick ==
    /\ pc = "kite"
    /\ KitePending < MaxPending
    /\ check_inflight' = check_inflight + 1
    /\ UNCHANGED <<connectionStatus, kite_showModal, currentStep, verify_inflight,
                   login_inflight, pc, bvars, avars, hvars, mvars, nvars, lvars>>

\* A checkConnection of the effect or the timer gets its answer.
StatusChecked ==
    /\ pc = "kite"
    /\ check_inflight > 0
    /\ check_inflight' = check_inflight - 1
    /\ \E answer \in StatusAnswers : connectionStatus' = CheckResult(answer)
    /\ UNCHANGED <<kite_showModal, currentStep, verify_inflight, login_inflight,
                   pc, bvars, avars, hvars, mvars, nvars, lvars>>

\* The Connect button (disabled while checking, without handler when
\* connected): handleConnect.
HandleConnect ==
    /\ pc = "kite"
    /\ ~kite_showModal
    /\ ~connectionStatus.checking
    /\ ~connectionStatus.connected
    /\ kite_showModal' = TRUE
    /\ currentStep' = 1
    /\ UNCHANGED <<connectionStatus, check_inflight, verify_inflight, login_inflight,
                   pc, bvars, avars, hvars, mvars, nvars, lvars>>

\* Step 1: handleCertificateApproval.
HandleCertificateApproval ==
    /\ pc = "kite"
    /\ kite_showModal
    /\ currentStep = 1
    /\ currentStep' = 2
    /\ UNCHANGED <<connectionStatus, kite_showModal, check_inflight, verify_inflight,
                   login_inflight, pc, bvars, avars, hvars, mvars, nvars, lvars>>

\* The Back button of step 2 or 3.
StepBack ==
    /\ pc = "kite"
    /\ kite_showModal
    /\ currentStep \in {2, 3}
    /\ currentStep' = currentStep - 1
    /\ UNCHANGED <<connectionStatus, kite_showModal, check_inflight, verify_inflight,
                   login_inflight, pc, bvars, avars, hvars, mvars, nvars, lvars>>

\* Step 2, Login to Kite: handleKiteLogin up to the fetch.
ClickKiteLogin ==
    /\ pc = "kite"
    /\ kite_showModal
    /\ currentStep = 2
    /\ KitePending < MaxPending
    /\ login_inflight' = Append(login_inflight, connectionStatus)
    /\ UNCHANGED <<connectionStatus, kite_showModal, currentStep, check_inflight,
                   verify_inflight, pc, bvars, avars, hvars, mvars, nvars, lvars>>

\* handleKiteLogin after the await: the login URL arrived.
LoginResolve ==
    /\ pc = "kite"
    /\ \E k \in 1..Len(login_inflight) : login_inflight' = RemoveAt(login_inflight, k)
    /\ currentStep' = 3
    /\ UNCHANGED <<connectionStatus, kite_showModal, check_inflight, verify_inflight,
                   pc, bvars, avars, hvars, mvars, nvars, lvars>>

\* handleKiteLogin, catch: the connectionStatus of the click's render with the
\* error added.
LoginReject ==
    /\ pc = "kite"
    /\ \E k \in 1..Len(login_inflight) :
        /\ login_inflight' = RemoveAt(login_inflight, k)
        /\ connectionStatus' =
               [login_inflight[k] EXCEPT !.error = [message |-> "Failed to get Kite login URL"]]
    /\ UNCHANGED <<kite_showModal, currentStep, check_inflight, verify_inflight,
                   pc, bvars, avars, hvars, mvars, nvars, lvars>>

\* Step 3, Verify Connection / Done: handleVerifyConnection up to the fetch
\* of checkConnection; connectionStatus.connected is the one of this render.
ClickVerify ==
    /\ pc = "kite"
    /\ kite_showModal
    /\ currentStep = 3
    /\ KitePending < MaxPending
    /\ verify_inflight' = Append(verify_inflight, connectionStatus.connected)
    /\ UNCHANGED <<connectionStatus, kite_showModal, currentStep, check_inflight,
                   login_inflight, pc, bvars, avars, hvars, mvars, nvars, lvars>>

\* handleVerifyConnection from the answer on: checkConnection sets
\* connectionStatus, then the test of connectionStatus.connected.
VerifyChecked ==
    /\ pc = "kite"
    /\ \E k \in 1..Len(verify_inflight) :
        /\ verify_inflight' = RemoveAt(verify_inflight, k)
        /\ IF verify_inflight[k]
           THEN kite_showModal' = FALSE /\ currentStep' = 1
           ELSE UNCHANGED <<kite_showModal, currentStep>>
    /\ \E answer \in StatusAnswers : connectionStatus' = CheckResult(answer)
    /\ UNCHANGED <<check_inflight, login_inflight, pc, bvars, avars, hvars, mvars,
                   nvars, lvars>>

\* The close button and the overlay: handleCloseModal.
HandleCloseModal ==
    /\ pc = "kite"
    /\ kite_showModal
    /\ kite_showModal' = FALSE
    /\ currentStep' = 1
    /\ UNCHANGED <<connectionStatus, check_inflight, verify_inflight, login_inflight,
                   pc, bvars, avars, hvars, mvars, nvars, lvars>>

NextKite ==
    \/ StatusTimerTick
    \/ StatusChecked
    \/ HandleConnect
    \/ HandleCertificateApproval
    \/ StepBack
    \/ ClickKiteLogin
    \/ LoginResolve
    \/ LoginReject
    \/ ClickVerify
    \/ VerifyChecked
    \/ HandleCloseModal

SpecKite == InitKite /\ [][NextKite]_vars

\* C25: a Verify Connection click at step 3 closes the modal and resets the
\* wizard to step 1 exactly when the status check made by that click reports
\* connected = true; otherwise the modal remains open at step 3.  (Stated for
\* the step in which the click's check is answered, with the modal still
\* open at step 3.)
C25_VerifyClosesWhenConnected ==
    [][(/\ Len(verify_inflight') < Len(verify_inflight)
        /\ kite_showModal
        /\ currentStep = 3)
          => IF connectionStatus'.connected
             THEN ~kite_showModal' /\ currentStep' = 1
             ELSE kite_showModal' /\ currentStep' = 3]_vars

----------------------------------------------------------------------------
(* frontend/src/components/InitializationProgress.js                        *)

\* The events download_5year_data emits for the symbols RELIANCE.NS and
\* TCS.NS: progress after a symbol, and the final status with the count of
\* the symbols that succeeded.
ProgressEvents ==
    {[status |-> "processing", current |-> 1, total |-> 2, progress |-> 50,
      symbol |-> "RELIANCE.NS"],
     [status |-> "processing", current |-> 2, total |-> 2, progress |-> 100,
      symbol |-> "TCS.NS"]}
    \cup {[status |-> "completed", message |-> <<n, 2>>] : n \in 0..2}

\* data.status || 'processing'
StatusOrProcessing(data) == IF "status" \in DOMAIN data THEN data.status ELSE "processing"

\* The page is mounted and its socket connected.
InitInitializationProgress ==
    /\ IdleBackend
    /\ IdleAnalysis
    /\ IdleHeatmapView
    /\ IdleModal
    /\ IdleKite
    /\ IdleShortlist
    /\ ip_status = "idle"
    /\ ip_isRefreshing = FALSE
    /\ ip_view = NoView
    /\ ip_posts = <<>>
    /\ pc = "datapage"

\* A button group that looks at isRefreshing only.
StartButtonsShown_IgnoringStatus == ~ip_isRefreshing

\* The button group with the two start buttons is rendered.
StartButtonsShown ==
    ~ip_isRefreshing /\ ip_status # "processing" /\ ip_status # "started"

\* The progress section is rendered.
ProgressShown ==
    ip_isRefreshing \/ ip_status = "processing" \/ ip_status = "started"

\* The error message with the Retry button is rendered.
RetryShown == ip_status = "error"

\* startRefresh / startFullInitialization up to the fetch.
StartRun(text, route) ==
    /\ Len(ip_posts) < MaxPending
    /\ ip_isRefreshing' = TRUE
    /\ ip_status' = "starting"
    /\ ip_view' = [ip_view EXCEPT !.progress = 0, !.message = text,
                                  !.recordsAdded = 0, !.recordsCleaned = 0]
    /\ ip_posts' = Append(ip_posts, route)
    /\ UNCHANGED <<pc, bvars, avars, hvars, mvars, kvars, lvars>>

\* The button Refresh Latest Data Only.
StartRefresh ==
    /\ pc = "datapage"
    /\ StartButtonsShown
    /\ StartRun("Starting data refresh...", "/api/ohlcv/refresh")

\* The button Initialize 5 Years Historical Data.
StartFullInitialization ==
    /\ pc = "datapage"
    /\ StartButtonsShown
    /\ StartRun("Starting full 5-year initialization...", "/api/ohlcv/initialize-all")

\* The Retry button of the error message: startRefresh.
ClickRetry ==
    /\ pc = "datapage"
    /\ RetryShown
    /\ StartRun("Starting data refresh...", "/api/ohlcv/refresh")

\* A start request is answered OK (console.log only).
PostAccepted ==
    /\ pc = "datapage"
    /\ \E k \in 1..Len(ip_posts) : ip_posts' = RemoveAt(ip_posts, k)
    /\ UNCHANGED <<ip_status, ip_isRefreshing, ip_view, pc, bvars, avars, hvars, mvars,
                   kvars, lvars>>

\* A start request fails or is answered with a non-OK status: catch.
PostRejected ==
    /\ pc = "datapage"
    /\ \E k \in 1..Len(ip_posts) :
        /\ ip_posts' = RemoveAt(ip_posts, k)
        /\ ip_view' = [ip_view EXCEPT !.message =
               IF ip_posts[k] = "/api/ohlcv/refresh"
               THEN "Failed to start refresh" ELSE "Failed to start initialization"]
    /\ ip_status' = "error"
    /\ ip_isRefreshing' = FALSE
    /\ UNCHANGED <<pc, bvars, avars, hvars, mvars, kvars, lvars>>

\* socket.on('initialization_progress')
OnInitializationProgress ==
    /\ pc = "datapage"
    /\ \E data \in ProgressEvents :
        /\ ip_view' = [ip_view EXCEPT !.progress = NumberOrZero(data, "progress"),
                                      !.message = MessageOrEmpty(data),
                                      !.current = NumberOrZero(data, "current"),
                                      !.total = NumberOrZero(data, "total"),
                                      !.currentSymbol = SymbolOrEmpty(data)]
        /\ ip_status' = StatusOrProcessing(data)
        /\ ip_isRefreshing' = DownloadingAfter(data, ip_isRefreshing)
    /\ UNCHANGED <<ip_posts, pc, bvars, avars, hvars, mvars, kvars, lvars>>

\* socket.on('refresh_progress') of the page.
OnPageRefreshProgress ==
    /\ pc = "datapage"
    /\ \E data \in ProgressEvents :
        /\ ip_view' = [progress |-> NumberOrZero(data, "progress"),
                       message |-> MessageOrEmpty(data),
                       current |-> NumberOrZero(data, "current"),
                       total |-> NumberOrZero(data, "total"),
                       currentSymbol |-> SymbolOrEmpty(data),
                       recordsAdded |-> NumberOrZero(data, "records_added"),
                       recordsCleaned |-> NumberOrZero(data, "records_cleaned")]
        /\ ip_status' = StatusOrProcessing(data)
        /\ ip_isRefreshing' = DownloadingAfter(data, ip_isRefreshing)
    /\ UNCHANGED <<ip_posts, pc, bvars, avars, hvars, mvars, kvars, lvars>>

NextInitializationProgress ==
    \/ StartRefresh
    \/ StartFullInitialization
    \/ ClickRetry
    \/ PostAccepted
    \/ PostRejected
    \/ OnInitializationProgress
    \/ OnPageRefreshProgress

SpecInitializationProgress ==
    InitInitializationProgress /\ [][NextInitializationProgress]_vars

\* A run is shown as in progress.
RunInProgress == ip_isRefreshing \/ ip_status \in {"processing", "started"}

----------------------------------------------------------------------------
(* Shortlist (frontend/src/components/Analysis.js, lines 202 on): loadAllData *)
(* and the handlers that call it                                            *)

\* How one of the four requests ends: success = true, success = false, or an
\* exception (no answer, or an answer that is not JSON).
FetchOutcomes == {"success", "refused", "error"}

\* data.data || [] of the answer to a fetcher (data.data for pnlAnalysis).
FetchedData(f) == [rows |-> <<f>>]

\* A fetcher that clears its state when its request fails.
StateAfterFetch_ClearedOnFailure(f, outcome, old) ==
    IF outcome = "success" THEN FetchedData(f) ELSE NoShortlistState[f]

\* The state of fetcher f after its request ended: set under data.success,
\* left alone otherwise and in the catch.
StateAfterFetch(f, outcome, old) ==
    IF outcome = "success" THEN FetchedData(f) ELSE old

\* The page is mounted: loading starts true and the effect has called
\* loadAllData.
InitShortlist ==
    /\ IdleBackend
    /\ IdleAnalysis
    /\ IdleHeatmapView
    /\ IdleModal
    /\ IdleKite
    /\ IdleInitProgress
    /\ sl_loading = TRUE
    /\ sl_state = NoShortlistState
    /\ sl_calls = <<Fetchers>>
    /\ sl_mutations = 0
    /\ pc = "shortlist"

\* The request of fetcher f of the c-th loadAllData call ends; when it is the
\* last of the four, Promise.all resolves and loadAllData sets loading false.
SettleFetch(c, f, outcome) ==
    /\ pc = "shortlist"
    /\ c \in 1..Len(sl_calls)
    /\ f \in sl_calls[c]
    /\ sl_calls' = [sl_calls EXCEPT ![c] = @ \ {f}]
    /\ sl_state' = [sl_state EXCEPT ![f] = StateAfterFetch(f, outcome, @)]
    /\ sl_loading' = IF sl_calls[c] = {f} THEN FALSE ELSE sl_loading
    /\ UNCHANGED <<sl_mutations, pc, bvars, avars, hvars, mvars, kvars, nvars>>

SettleAny ==
    \E c \in 1..MaxLoads, f \in Fetchers, outcome \in FetchOutcomes : SettleFetch(c, f, outcome)

\* The trade form is submitted or a trade deleted (the page is rendered when
\* not loading): handleTradeSubmit / handleDeleteTrade up to the fetch.
SubmitOrDeleteTrade ==
    /\ pc = "shortlist"
    /\ ~sl_loading
    /\ sl_mutations < MaxPending
    /\ sl_mutations' = sl_mutations + 1
    /\ UNCHANGED <<sl_loading, sl_state, sl_calls, pc, bvars, avars, hvars, mvars,
                   kvars, nvars>>

\* The submission or deletion is answered with success = true: loadAllData.
TradeAccepted ==
    /\ pc = "shortlist"
    /\ sl_mutations > 0
    /\ Len(sl_calls) < MaxLoads
    /\ sl_mutations' = sl_mutations - 1
    /\ sl_loading' = TRUE
    /\ sl_calls' = Append(sl_calls, Fetchers)
    /\ UNCHANGED <<sl_state, pc, bvars, avars, hvars, mvars, kvars, nvars>>

\* The submission or deletion is answered with success = false, or fails: a
\* notification only.
TradeRefused ==
    /\ pc = "shortlist"
    /\ sl_mutations > 0
    /\ sl_mutations' = sl_mutations - 1
    /\ UNCHANGED <<sl_loading, sl_state, sl_calls, pc, bvars, avars, hvars, mvars,
                   kvars, nvars>>

NextShortlist ==
    \/ SettleAny
    \/ SubmitOrDeleteTrade
    \/ TradeAccepted
    \/ TradeRefused

SpecShortlist == InitShortlist /\ [][NextShortlist]_vars

\* Every request is answered or fails in the end.
SpecShortlistFair == SpecShortlist /\ WF_vars(SettleAny)

\* C29: every call of loadAllData eventually sets loading to false, whatever
\* subset of its four requests fails or returns success = false (the call
\* ends when its last request does, and sets loading false in that step); a
\* failing request leaves the state it would have set unchanged and does not
\* prevent the other three from being applied.
C29_LoadAllDataEnds ==
    /\ \A c \in 1..MaxLoads :
        (c <= Len(sl_calls) /\ sl_calls[c] # {}) ~> (c <= Len(sl_calls) /\ sl_calls[c] = {})
    /\ [][\A c \in 1..Len(sl_calls) :
            (sl_calls[c] # {} /\ sl_calls'[c] = {}) => ~sl_loading']_vars
    /\ [][\A c \in 1..MaxLoads, f \in Fetchers :
            /\ \A outcome \in {"refused", "error"} :
                SettleFetch(c, f, outcome) =>
                    /\ sl_state' = sl_state
                    /\ sl_calls'[c] = sl_calls[c] \ {f}
            /\ SettleFetch(c, f, "success") =>
                    /\ sl_state'[f] = FetchedData(f)
                    /\ \A g \in Fetchers \ {f} : sl_state'[g] = sl_state[g]]_vars

\* The first call has ended with the shortlist request failed and the three
\* other responses applied.
C29_Witness ==
    /\ ~sl_loading
    /\ Len(sl_calls) = 1
    /\ sl_calls[1] = {}
    /\ sl_state["fetchShortlist"] = NoShortlistState["fetchShortlist"]
    /\ \A f \in Fetchers \ {"fetchShortlist"} : sl_state[f] = FetchedData(f)

====
